---- MODULE Spec2Model ----
(***************************************************************************)
(* EventHive: the accounts, the event registry and the registration        *)
(* workflow of the Express server, over the PostgreSQL tables users,       *)
(* events and registrations.  Every request is a process that performs     *)
(* the handler's database calls one at a time; one action is one database  *)
(* call together with the synchronous code that follows it up to the next  *)
(* await.                                                                  *)
(***************************************************************************)
EXTENDS Integers, FiniteSets, Sequences, TLC

\* ------------------------------------------------------------------ bounds
MaxRegId == 2       \* values the registrations.id sequence may hand out
MaxCap == 2         \* largest max_attendees a request body carries
MaxTime == 1        \* last instant of the clock

\* ------------------------------------------------------------- value sets
Procs == {1, 2}                 \* requests that may be in flight together
SeqProc == CHOOSE p \in Procs : \A q \in Procs : p <= q   \* the slot of sequential runs
UserIds == {1, 2, 3}
EventIds == {1}                 \* ids of the events the model follows
RegIds == 1..MaxRegId
Roles == {"student", "organizer", "admin"}
NoUser == "none"
Statuses == {"pending", "approved", "rejected"}
BodyStatuses == Statuses \cup {"cancelled"}   \* "cancelled": a body the schema rejects
Caps == 0..MaxCap               \* 0: a body the schema rejects (min 1)
Dates == 0..MaxTime
Absent == "undefined"           \* a key the JSON body does not carry
Null == "null"                  \* NULL in a column, null in the JSON of a response
NoEvent == [title |-> "", description |-> "", location |-> "",
            max_attendees |-> 0, created_by |-> 0, date |-> 0]
\* the body of POST and PUT /api/events as JSON text, but for its date
NoBody == [title |-> "", description |-> "", location |-> "", max_attendees |-> ""]
\* a row of events as a response carries it, with the fields GET /:id derives
NoRow == [id |-> 0, title |-> "", description |-> "", location |-> "",
          max_attendees |-> 0, created_by |-> 0, date |-> 0,
          current_attendees |-> 0, is_full |-> FALSE]

NoAccount == [username |-> "", email |-> "", password_hash |-> ""]
\* iat: the instant of issue; exp: the expiry claim, {} when the token has none
NoToken == [userId |-> 0, role |-> NoUser, iat |-> 0, exp |-> {}]

\* users: the role column of the users table; accounts: its username, email and
\* password_hash columns; nextUserId: the users.id sequence; tokens: the bearer
\* token the client of each user holds
\* sockets: the sockets the server has accepted, with the rooms each is in;
\* emitted: the last message the server emitted and the sockets it went to;
\* client: the socketService and the EventProvider of one browser
VARIABLES users, events, nextEventId, regs, nextRegId, now, pc, req, loc, resp,
          accounts, nextUserId, tokens, sockets, emitted, client

vars == <<users, events, nextEventId, regs, nextRegId, now, pc, req, loc, resp,
          accounts, nextUserId, tokens, sockets, emitted, client>>
rt == <<sockets, emitted, client>>
db == <<users, events, nextEventId, regs, nextRegId>>
creds == <<accounts, nextUserId, tokens>>

\* ---------------------------------------------------------------- helpers
NoReq == [op |-> "none", bearer |-> "", caller |-> 0, role |-> NoUser, claim |-> NoUser,
          event_id |-> 0, reg_id |-> 0, ids |-> {}, status |-> "",
          max_attendees |-> 0, date |-> 0,
          username |-> "", email |-> "", password |-> "", body_role |-> "",
          path |-> <<>>, body |-> NoBody, given_role |-> "", newPassword |-> ""]
NoLoc == [event_id |-> 0, max_attendees |-> 0, count |-> 0]
NoResp == [code |-> 0, msg |-> "", status |-> "", rows |-> 0, data |-> {}, token |-> NoToken,
           event |-> NoRow]

Resp(code, msg) == [NoResp EXCEPT !.code = code, !.msg = msg]

\* jwt.sign({ userId, username, role }, process.env.JWT_SECRET) at the instant t:
\* no options, so no expiry claim
sign(userId, role, t) == [userId |-> userId, role |-> role, iat |-> t, exp |-> {}]
\* jwt.verify throws TokenExpiredError on a token whose exp claim has passed
expired(token) == \E t \in token.exp : now >= t

\* bcrypt.hash(password, saltRounds) and bcrypt.compare(password, hash)
hash(password) == <<"bcrypt", password>>
compare(password, password_hash) == password_hash = hash(password)

EventExists(e) == e \in EventIds /\ events[e] # NoEvent

\* SELECT COUNT(*) FROM registrations WHERE event_id = e AND status = 'approved'
ApprovedCount(e) == Cardinality({r \in regs : r.event_id = e /\ r.status = "approved"})

\* requireRole(...allowedRoles) on the user row authenticateToken fetched
requireRole(role, allowedRoles) == role \in allowedRoles
requireOrganizer == {"organizer", "admin"}
requireStudent == {"student", "organizer", "admin"}

\* rows of registrations matching a WHERE clause
RegsById(id) == {r \in regs : r.id = id}
RegsByPair(e, u) == {r \in regs : r.event_id = e /\ r.user_id = u}

InFlight(p) == pc[p] \notin {"idle", "done"}

\* a response is delivered before anything else happens
Responding == \E q \in Procs : pc[q] = "done"
\* process p is about to run the step `label` of its handler
At(p, label) == pc[p] = label /\ ~Responding

\* the handler answers: res.status(code).json(...)
Finish(p, r) ==
    /\ pc' = [pc EXCEPT ![p] = "done"]
    /\ resp' = [resp EXCEPT ![p] = r]
    /\ loc' = [loc EXCEPT ![p] = NoLoc]

\* the handler awaits its next database call
Goto(p, label, l) ==
    /\ pc' = [pc EXCEPT ![p] = label]
    /\ loc' = [loc EXCEPT ![p] = l]
    /\ resp' = resp

\* the request as it reaches the route: the bearer token the client of `caller`
\* holds (its userId claim and its role claim), the role of the user row that
\* authenticateToken fetches for req.user, and the body
Request(op, caller) ==
    [NoReq EXCEPT !.op = op, !.bearer = "valid", !.caller = tokens[caller].userId,
                  !.role = users[caller], !.claim = tokens[caller].role]

\* Gate as it would be if requireRole read the role claim of the token
GateByClaim(caller, allowedRoles) ==
    IF expired(tokens[caller]) THEN Resp(401, "token_expired")
    ELSE IF users[caller] = NoUser THEN Resp(401, "user_not_found")
    ELSE IF ~requireRole(tokens[caller].role, allowedRoles) THEN Resp(403, "access_denied")
    ELSE NoResp

\* Gate as it would be if authenticateToken trusted the token's claims and did
\* not fetch the user row
GateNoLookup(caller, allowedRoles) ==
    IF expired(tokens[caller]) THEN Resp(401, "token_expired")
    ELSE IF ~requireRole(tokens[caller].role, allowedRoles) THEN Resp(403, "access_denied")
    ELSE NoResp

\* Gate as it would be if the chain had no requireRole
GateNoRole(caller, allowedRoles) ==
    IF expired(tokens[caller]) THEN Resp(401, "token_expired")
    ELSE IF users[caller] = NoUser THEN Resp(401, "user_not_found") ELSE NoResp

\* authenticateToken then requireRole: the response that short-circuits, or NoResp
Gate(caller, allowedRoles) ==
    IF expired(tokens[caller]) THEN Resp(401, "token_expired")
    ELSE IF users[caller] = NoUser THEN Resp(401, "user_not_found")
    ELSE IF ~requireRole(users[caller], allowedRoles) THEN Resp(403, "access_denied")
    ELSE NoResp

\* the connection's slot is free again
Return(p) ==
    /\ pc[p] = "done"
    /\ pc' = [pc EXCEPT ![p] = "idle"]
    /\ req' = [req EXCEPT ![p] = NoReq]
    /\ resp' = [resp EXCEPT ![p] = NoResp]
    /\ UNCHANGED <<rt, creds, db, now, loc>>

\* ------------------------------------------------- POST /api/registrations
RegistersInFlight == Cardinality({q \in Procs : InFlight(q) /\ req[q].op = "register"})

BeginRegister(p) ==
    /\ At(p, "idle")
    /\ nextRegId + RegistersInFlight <= MaxRegId
    /\ \E caller \in UserIds, e \in EventIds \cup {0} :
         LET r == [Request("register", caller) EXCEPT !.event_id = e]
             g == Gate(caller, requireStudent) IN
         /\ req' = [req EXCEPT ![p] = r]
         /\ IF g # NoResp THEN Finish(p, g)
            ELSE IF e = 0 THEN Finish(p, Resp(400, "event_id_required"))
            ELSE Goto(p, "reg_event", NoLoc)
    /\ UNCHANGED <<rt, creds, db, now>>

\* SELECT id, title, date, max_attendees FROM events WHERE id = $1
RegEvent(p) ==
    /\ At(p, "reg_event")
    /\ LET e == req[p].event_id IN
         IF ~EventExists(e) THEN Finish(p, Resp(404, "event_not_found"))
         ELSE IF events[e].date <= now THEN Finish(p, Resp(400, "past_event"))
         ELSE Goto(p, "reg_existing", [NoLoc EXCEPT !.max_attendees = events[e].max_attendees])
    /\ UNCHANGED <<rt, creds, db, now, req>>

\* RegExisting as it would be if a rejected registration did not count as existing
RegExistingNotRejected(p) ==
    /\ At(p, "reg_existing")
    /\ LET rows == {r \in RegsByPair(req[p].event_id, req[p].caller) : r.status # "rejected"} IN
         IF rows # {}
         THEN \E reg \in rows :
                Finish(p, [Resp(409, "already_registered") EXCEPT !.status = reg.status])
         ELSE Goto(p, "reg_count", loc[p])
    /\ UNCHANGED <<rt, creds, db, now, req>>

\* SELECT id, status FROM registrations WHERE event_id = $1 AND user_id = $2
RegExisting(p) ==
    /\ At(p, "reg_existing")
    /\ LET rows == RegsByPair(req[p].event_id, req[p].caller) IN
         IF rows # {}
         THEN \E reg \in rows :
                Finish(p, [Resp(409, "already_registered") EXCEPT !.status = reg.status])
         ELSE Goto(p, "reg_count", loc[p])
    /\ UNCHANGED <<rt, creds, db, now, req>>

\* RegCount as it would be if capacity were checked at approval only
RegCountNoGate(p) ==
    /\ At(p, "reg_count")
    /\ Goto(p, "reg_insert", loc[p])
    /\ UNCHANGED <<rt, creds, db, now, req>>

\* RegCount as it would be with > for >=
RegCountStrict(p) ==
    /\ At(p, "reg_count")
    /\ IF ApprovedCount(req[p].event_id) > loc[p].max_attendees
       THEN Finish(p, Resp(400, "event_full"))
       ELSE Goto(p, "reg_insert", loc[p])
    /\ UNCHANGED <<rt, creds, db, now, req>>

\* SELECT COUNT(*) ... status = 'approved', compared with the event row read before
RegCount(p) ==
    /\ At(p, "reg_count")
    /\ IF ApprovedCount(req[p].event_id) >= loc[p].max_attendees
       THEN Finish(p, Resp(400, "event_full"))
       ELSE Goto(p, "reg_insert", loc[p])
    /\ UNCHANGED <<rt, creds, db, now, req>>

\* RegInsert as it would be if the table had no UNIQUE(event_id, user_id)
RegInsertNoUnique(p) ==
    /\ At(p, "reg_insert")
    /\ nextRegId' = nextRegId + 1
    /\ LET e == req[p].event_id  u == req[p].caller IN
         IF EventExists(e) /\ users[u] # NoUser
         THEN /\ regs' = regs \cup {[id |-> nextRegId, event_id |-> e, user_id |-> u,
                                     status |-> "pending"]}
              /\ Finish(p, [Resp(201, "registered") EXCEPT !.rows = 1])
         ELSE /\ regs' = regs
              /\ Finish(p, Resp(500, "internal_error"))
    /\ UNCHANGED <<rt, creds, users, events, nextEventId, now, req>>

\* INSERT INTO registrations (event_id, user_id, status) VALUES ($1, $2, 'pending'),
\* under REFERENCES events(id), REFERENCES users(id) and UNIQUE(event_id, user_id);
\* the id sequence advances whether or not the row is accepted
RegInsert(p) ==
    /\ At(p, "reg_insert")
    /\ nextRegId' = nextRegId + 1
    /\ LET e == req[p].event_id  u == req[p].caller IN
         IF EventExists(e) /\ users[u] # NoUser /\ RegsByPair(e, u) = {}
         THEN /\ regs' = regs \cup {[id |-> nextRegId, event_id |-> e, user_id |-> u,
                                     status |-> "pending"]}
              /\ Finish(p, [Resp(201, "registered") EXCEPT !.rows = 1])
         ELSE /\ regs' = regs
              /\ Finish(p, Resp(500, "internal_error"))
    /\ UNCHANGED <<rt, creds, users, events, nextEventId, now, req>>

\* ------------------------------------------- DELETE /api/registrations/:id
BeginCancel(p) ==
    /\ At(p, "idle")
    /\ \E caller \in UserIds, id \in RegIds :
         LET r == [Request("cancel", caller) EXCEPT !.reg_id = id]
             g == Gate(caller, requireStudent) IN
         /\ req' = [req EXCEPT ![p] = r]
         /\ IF g # NoResp THEN Finish(p, g) ELSE Goto(p, "can_select", NoLoc)
    /\ UNCHANGED <<rt, creds, db, now>>

\* CanSelect as it would be if the SELECT did not test user_id
CanSelectAnyOwner(p) ==
    /\ At(p, "can_select")
    /\ IF RegsById(req[p].reg_id) = {}
       THEN Finish(p, Resp(404, "registration_not_found"))
       ELSE Goto(p, "can_delete", loc[p])
    /\ UNCHANGED <<rt, creds, db, now, req>>

\* SELECT id FROM registrations WHERE id = $1 AND user_id = $2
CanSelect(p) ==
    /\ At(p, "can_select")
    /\ IF {r \in RegsById(req[p].reg_id) : r.user_id = req[p].caller} = {}
       THEN Finish(p, Resp(404, "registration_not_found"))
       ELSE Goto(p, "can_delete", loc[p])
    /\ UNCHANGED <<rt, creds, db, now, req>>

\* DELETE FROM registrations WHERE id = $1
CanDelete(p) ==
    /\ At(p, "can_delete")
    /\ regs' = regs \ RegsById(req[p].reg_id)
    /\ Finish(p, [Resp(200, "cancelled") EXCEPT !.rows = Cardinality(RegsById(req[p].reg_id))])
    /\ UNCHANGED <<rt, creds, users, events, nextEventId, nextRegId, now, req>>

\* --------------------------------------- PUT /api/registrations/:id/status
BeginSetStatus(p) ==
    /\ At(p, "idle")
    /\ \E caller \in UserIds, id \in RegIds, s \in BodyStatuses :
         LET r == [Request("setStatus", caller) EXCEPT !.reg_id = id, !.status = s]
             g == Gate(caller, requireOrganizer) IN
         /\ req' = [req EXCEPT ![p] = r]
         /\ IF g # NoResp THEN Finish(p, g)
            ELSE IF s \notin Statuses THEN Finish(p, Resp(400, "validation_failed"))
            ELSE Goto(p, "ss_select", NoLoc)
    /\ UNCHANGED <<rt, creds, db, now>>

\* SsSelect as it would be without the comparison of created_by with req.user.id
SsSelectNoOwner(p) ==
    /\ At(p, "ss_select")
    /\ LET rows == {r \in RegsById(req[p].reg_id) : EventExists(r.event_id)} IN
         IF rows = {} THEN Finish(p, Resp(404, "registration_not_found"))
         ELSE \E reg \in rows :
                IF req[p].status = "approved"
                THEN Goto(p, "ss_count", [NoLoc EXCEPT !.event_id = reg.event_id])
                ELSE Goto(p, "ss_update", NoLoc)
    /\ UNCHANGED <<rt, creds, db, now, req>>

\* SELECT r.*, e.created_by FROM registrations r JOIN events e ... WHERE r.id = $1
SsSelect(p) ==
    /\ At(p, "ss_select")
    /\ LET rows == {r \in RegsById(req[p].reg_id) : EventExists(r.event_id)} IN
         IF rows = {} THEN Finish(p, Resp(404, "registration_not_found"))
         ELSE \E reg \in rows :
                IF req[p].role # "admin" /\ events[reg.event_id].created_by # req[p].caller
                THEN Finish(p, Resp(403, "not_your_event"))
                ELSE IF req[p].status = "approved"
                THEN Goto(p, "ss_count", [NoLoc EXCEPT !.event_id = reg.event_id])
                ELSE Goto(p, "ss_update", NoLoc)
    /\ UNCHANGED <<rt, creds, db, now, req>>

\* SELECT COUNT(*) FROM registrations WHERE event_id = $1 AND status = 'approved'
SsCount(p) ==
    /\ At(p, "ss_count")
    /\ Goto(p, "ss_max", [loc[p] EXCEPT !.count = ApprovedCount(loc[p].event_id)])
    /\ UNCHANGED <<rt, creds, db, now, req>>

\* SsMax as it would be without the capacity comparison
SsMaxNoGate(p) ==
    /\ At(p, "ss_max")
    /\ IF ~EventExists(loc[p].event_id) THEN Finish(p, Resp(500, "internal_error"))
       ELSE Goto(p, "ss_update", NoLoc)
    /\ UNCHANGED <<rt, creds, db, now, req>>

\* SsMax as it would be if it refused only a count above max_attendees
SsMaxStrict(p) ==
    /\ At(p, "ss_max")
    /\ LET e == loc[p].event_id IN
         IF ~EventExists(e) THEN Finish(p, Resp(500, "internal_error"))
         ELSE IF loc[p].count > events[e].max_attendees THEN Finish(p, Resp(400, "event_full_cannot_approve"))
         ELSE Goto(p, "ss_update", NoLoc)
    /\ UNCHANGED <<rt, creds, db, now, req>>

\* SELECT max_attendees FROM events WHERE id = $1; rows[0] of no row throws
SsMax(p) ==
    /\ At(p, "ss_max")
    /\ LET e == loc[p].event_id IN
         IF ~EventExists(e) THEN Finish(p, Resp(500, "internal_error"))
         ELSE IF loc[p].count >= events[e].max_attendees THEN Finish(p, Resp(400, "event_full_cannot_approve"))
         ELSE Goto(p, "ss_update", NoLoc)
    /\ UNCHANGED <<rt, creds, db, now, req>>

\* UPDATE registrations SET status = $1 WHERE id = $2 RETURNING ...
SsUpdate(p) ==
    /\ At(p, "ss_update")
    /\ regs' = {IF r.id = req[p].reg_id THEN [r EXCEPT !.status = req[p].status] ELSE r
                  : r \in regs}
    /\ Finish(p, [Resp(200, "status_updated") EXCEPT
                    !.status = req[p].status,
                    !.rows = Cardinality(RegsById(req[p].reg_id))])
    /\ UNCHANGED <<rt, creds, users, events, nextEventId, nextRegId, now, req>>

\* ------------------------------------- PUT /api/registrations/bulk-status
\* `query` is the function exported by the connection module; it has no getClient
\* property, so `await query.getClient()` throws a TypeError before any database
\* call and the outer catch answers 500
BulkSetStatus(p) ==
    /\ At(p, "idle")
    /\ \E caller \in UserIds, ids \in SUBSET RegIds, s \in BodyStatuses :
         LET r == [Request("bulkSetStatus", caller) EXCEPT !.ids = ids, !.status = s]
             g == Gate(caller, requireOrganizer) IN
         /\ req' = [req EXCEPT ![p] = r]
         /\ IF g # NoResp THEN Finish(p, g)
            ELSE IF ids = {} THEN Finish(p, Resp(400, "ids_required"))
            ELSE IF s \notin Statuses THEN Finish(p, Resp(400, "invalid_status"))
            ELSE Finish(p, Resp(500, "internal_error"))
    /\ UNCHANGED <<rt, creds, db, now>>

\* --------------------------------------------------------- POST /api/events
\* eventSchema: date greater than 'now', max_attendees an integer in 1..10000
eventSchema(date, max_attendees) ==
    date > now /\ max_attendees >= 1 /\ max_attendees <= 10000

\* eventSchema: title a string of 3 to 200 characters
titleSchema(title) == Len(title) >= 3 /\ Len(title) <= 200

DefaultMaxAttendees == 100      \* max_attendees: Joi.number()....default(100)

\* Joi.number() converts the text of a number to the number
toNumber(text) == CHOOSE m \in Caps : ToString(m) = text
\* the max_attendees of req.body once validate has put the schema's value there
maxAttendees(text) == IF text = Absent THEN DefaultMaxAttendees ELSE toNumber(text)
\* a query parameter as the store receives it: undefined is sent as NULL
toSql(value) == IF value = Absent THEN Null ELSE value

Titles == {"ab", "Hackathon"}   \* "ab": a title the schema rejects (min 3)
Descriptions == {Absent, "", "Bring a laptop"}
Locations == {Absent, "Main Hall"}
CapTexts == {ToString(m) : m \in Caps}
\* the bodies a client may send
EventBodies == [title : Titles, description : Descriptions, location : Locations,
                max_attendees : CapTexts \cup {Absent}]
\* the bodies of one title, description and location
PlainBody == [title |-> "Hackathon", description |-> "", location |-> ""]
PlainBodies == [title : {PlainBody.title}, description : {PlainBody.description},
                location : {PlainBody.location}, max_attendees : CapTexts]

\* the row RETURNING hands back after INSERT INTO events
eventRow(e, row) ==
    [NoRow EXCEPT !.id = e, !.title = row.title, !.description = row.description,
                  !.location = row.location, !.max_attendees = row.max_attendees,
                  !.created_by = row.created_by, !.date = row.date]

CreatesInFlight == Cardinality({q \in Procs : InFlight(q) /\ req[q].op = "createEvent"})

\* authenticateToken, requireOrganizer, validate(eventSchema), for a body of `bodies`
BeginCreateEventOf(p, bodies) ==
    /\ At(p, "idle")
    /\ (nextEventId + CreatesInFlight) \in EventIds
    /\ \E caller \in UserIds, d \in Dates, b \in bodies :
         LET m == maxAttendees(b.max_attendees)
             r == [Request("createEvent", caller) EXCEPT
                     !.date = d, !.max_attendees = m, !.body = b]
             g == Gate(caller, requireOrganizer) IN
         /\ req' = [req EXCEPT ![p] = r]
         /\ IF g # NoResp THEN Finish(p, g)
            ELSE IF ~(titleSchema(b.title) /\ eventSchema(d, m))
            THEN Finish(p, Resp(400, "validation_failed"))
            ELSE Goto(p, "ce_insert", NoLoc)
    /\ UNCHANGED <<rt, creds, db, now>>

BeginCreateEvent(p) == BeginCreateEventOf(p, PlainBodies)

\* CeInsert as it would be if the INSERT left max_attendees to the column's default
CeInsertColumnDefault(p) ==
    /\ At(p, "ce_insert")
    /\ nextEventId' = nextEventId + 1
    /\ IF users[req[p].caller] # NoUser
       THEN LET row == [title |-> req[p].body.title,
                        description |-> toSql(req[p].body.description),
                        location |-> toSql(req[p].body.location),
                        max_attendees |-> DefaultMaxAttendees,
                        created_by |-> req[p].caller, date |-> req[p].date] IN
            /\ events' = [events EXCEPT ![nextEventId] = row]
            /\ Finish(p, [Resp(201, "event_created") EXCEPT
                            !.rows = 1, !.event = eventRow(nextEventId, row)])
       ELSE /\ events' = events
            /\ Finish(p, Resp(500, "internal_error"))
    /\ UNCHANGED <<rt, creds, users, regs, nextRegId, now, req>>

\* INSERT INTO events (title, description, date, location, max_attendees, created_by)
\* ... RETURNING ..., created_by REFERENCES users(id)
CeInsert(p) ==
    /\ At(p, "ce_insert")
    /\ nextEventId' = nextEventId + 1
    /\ IF users[req[p].caller] # NoUser
       THEN LET row == [title |-> req[p].body.title,
                        description |-> toSql(req[p].body.description),
                        location |-> toSql(req[p].body.location),
                        max_attendees |-> req[p].max_attendees,
                        created_by |-> req[p].caller, date |-> req[p].date] IN
            /\ events' = [events EXCEPT ![nextEventId] = row]
            /\ Finish(p, [Resp(201, "event_created") EXCEPT
                            !.rows = 1, !.event = eventRow(nextEventId, row)])
       ELSE /\ events' = events
            /\ Finish(p, Resp(500, "internal_error"))
    /\ UNCHANGED <<rt, creds, users, regs, nextRegId, now, req>>

\* ---------------------------------------- PUT and DELETE /api/events/:id
BeginUpdateEvent(p) ==
    /\ At(p, "idle")
    /\ \E caller \in UserIds, e \in EventIds, d \in Dates, m \in Caps :
         LET r == [Request("updateEvent", caller) EXCEPT
                     !.event_id = e, !.date = d, !.max_attendees = m,
                     !.body = PlainBody @@ [max_attendees |-> ToString(m)]]
             g == Gate(caller, requireOrganizer) IN
         /\ req' = [req EXCEPT ![p] = r]
         /\ IF g # NoResp THEN Finish(p, g)
            ELSE IF r.role # "admin" THEN Goto(p, "own_check", NoLoc)
            ELSE IF ~eventSchema(d, m) THEN Finish(p, Resp(400, "validation_failed"))
            ELSE Goto(p, "ue_exists", NoLoc)
    /\ UNCHANGED <<rt, creds, db, now>>

BeginDeleteEvent(p) ==
    /\ At(p, "idle")
    /\ \E caller \in UserIds, e \in EventIds :
         LET r == [Request("deleteEvent", caller) EXCEPT !.event_id = e]
             g == Gate(caller, requireOrganizer) IN
         /\ req' = [req EXCEPT ![p] = r]
         /\ IF g # NoResp THEN Finish(p, g)
            ELSE IF r.role # "admin" THEN Goto(p, "own_check", NoLoc)
            ELSE Goto(p, "de_exists", NoLoc)
    /\ UNCHANGED <<rt, creds, db, now>>

\* requireOwnershipOrAdmin as it would be without the comparison with req.user.id
requireOwnershipOrAdminNoOwner(p) ==
    /\ At(p, "own_check")
    /\ LET e == req[p].event_id IN
         IF ~EventExists(e) THEN Finish(p, Resp(404, "resource_not_found"))
         ELSE IF req[p].op = "deleteEvent" THEN Goto(p, "de_exists", NoLoc)
         ELSE IF ~eventSchema(req[p].date, req[p].max_attendees)
         THEN Finish(p, Resp(400, "validation_failed"))
         ELSE Goto(p, "ue_exists", NoLoc)
    /\ UNCHANGED <<rt, creds, db, now, req>>

\* requireOwnershipOrAdmin('id', 'events', 'created_by') for a caller who is no admin:
\* SELECT created_by FROM events WHERE id = $1, then the rest of the chain
requireOwnershipOrAdmin(p) ==
    /\ At(p, "own_check")
    /\ LET e == req[p].event_id IN
         IF ~EventExists(e) THEN Finish(p, Resp(404, "resource_not_found"))
         ELSE IF events[e].created_by # req[p].caller THEN Finish(p, Resp(403, "not_owner"))
         ELSE IF req[p].op = "deleteEvent" THEN Goto(p, "de_exists", NoLoc)
         ELSE IF ~eventSchema(req[p].date, req[p].max_attendees)
         THEN Finish(p, Resp(400, "validation_failed"))
         ELSE Goto(p, "ue_exists", NoLoc)
    /\ UNCHANGED <<rt, creds, db, now, req>>

\* SELECT id FROM events WHERE id = $1
UeExists(p) ==
    /\ At(p, "ue_exists")
    /\ IF ~EventExists(req[p].event_id) THEN Finish(p, Resp(404, "event_not_found"))
       ELSE Goto(p, "ue_update", NoLoc)
    /\ UNCHANGED <<rt, creds, db, now, req>>

\* UPDATE events SET ..., date = $3, max_attendees = $5 WHERE id = $6 RETURNING ...
UeUpdate(p) ==
    /\ At(p, "ue_update")
    /\ LET e == req[p].event_id IN
         IF EventExists(e)
         THEN /\ events' = [events EXCEPT ![e].title = req[p].body.title,
                                          ![e].description = toSql(req[p].body.description),
                                          ![e].location = toSql(req[p].body.location),
                                          ![e].max_attendees = req[p].max_attendees,
                                          ![e].date = req[p].date]
              /\ Finish(p, [Resp(200, "event_updated") EXCEPT !.rows = 1])
         ELSE /\ events' = events
              /\ Finish(p, Resp(200, "event_updated"))
    /\ UNCHANGED <<rt, creds, users, nextEventId, regs, nextRegId, now, req>>

\* SELECT id FROM events WHERE id = $1
DeExists(p) ==
    /\ At(p, "de_exists")
    /\ IF ~EventExists(req[p].event_id) THEN Finish(p, Resp(404, "event_not_found"))
       ELSE Goto(p, "de_delete", NoLoc)
    /\ UNCHANGED <<rt, creds, db, now, req>>

\* DeDelete as it would be if registrations.event_id did not cascade
DeDeleteNoCascade(p) ==
    /\ At(p, "de_delete")
    /\ LET e == req[p].event_id IN
         /\ events' = [events EXCEPT ![e] = NoEvent]
         /\ regs' = regs
         /\ Finish(p, [Resp(200, "event_deleted") EXCEPT
                         !.rows = IF EventExists(e) THEN 1 ELSE 0])
    /\ UNCHANGED <<rt, creds, users, nextEventId, nextRegId, now, req>>

\* DELETE FROM events WHERE id = $1; registrations.event_id is ON DELETE CASCADE
DeDelete(p) ==
    /\ At(p, "de_delete")
    /\ LET e == req[p].event_id IN
         /\ events' = [events EXCEPT ![e] = NoEvent]
         /\ regs' = {r \in regs : r.event_id # e}
         /\ Finish(p, [Resp(200, "event_deleted") EXCEPT
                         !.rows = IF EventExists(e) THEN 1 ELSE 0])
    /\ UNCHANGED <<rt, creds, users, nextEventId, nextRegId, now, req>>

\* ------------------------------------------------- POST /api/auth/register
\* values a body may carry; "" is a field the body leaves out
Names == {"alice", "bob"}
Emails == {"alice@campus.edu", "bob@campus.edu"}
Passwords == {"secret1", "secret2"}
BodyRoles == {"", "student", "organizer", "admin"}

\* registerSchema as it would be with .valid('student', 'organizer', 'admin')
registerSchemaAnyRole(role) ==
    IF role = "" THEN "student" ELSE IF role \in Roles THEN role ELSE ""

\* registerSchema: role is one of student and organizer, student when left out;
\* the body as validate hands it on, or "" when validation fails
registerSchema(role) ==
    IF role = "" THEN "student" ELSE IF role \in {"student", "organizer"} THEN role ELSE ""

\* rows of users with the username or the email, other than row `self`
UsersWith(username, email, self) ==
    {u \in UserIds \ {self} : /\ users[u] # NoUser
                              /\ \/ username # "" /\ accounts[u].username = username
                                 \/ email # "" /\ accounts[u].email = email}

UsersInFlight == Cardinality({q \in Procs : InFlight(q) /\ req[q].op = "registerUser"})

BeginRegisterUser(p) ==
    /\ At(p, "idle")
    /\ (nextUserId + UsersInFlight) \in UserIds
    /\ \E n \in Names, e \in Emails, pw \in Passwords, role \in BodyRoles :
         LET r == [NoReq EXCEPT !.op = "registerUser", !.username = n, !.email = e,
                                !.password = pw, !.body_role = registerSchema(role),
                                !.given_role = role] IN
         /\ req' = [req EXCEPT ![p] = r]
         /\ IF registerSchema(role) = "" THEN Finish(p, Resp(400, "validation_failed"))
            ELSE Goto(p, "ru_select", NoLoc)
    /\ UNCHANGED <<rt, creds, db, now>>

\* SELECT id FROM users WHERE username = $1 OR email = $2
RuSelect(p) ==
    /\ At(p, "ru_select")
    /\ IF UsersWith(req[p].username, req[p].email, 0) # {}
       THEN Finish(p, Resp(409, "username_or_email_exists"))
       ELSE Goto(p, "ru_insert", NoLoc)
    /\ UNCHANGED <<rt, creds, db, now, req>>

\* INSERT INTO users (username, email, password_hash, role) under UNIQUE(username)
\* and UNIQUE(email); the id sequence advances whether or not the row is accepted;
\* then jwt.sign({userId, username, role})
RuInsert(p) ==
    /\ At(p, "ru_insert")
    /\ nextUserId' = nextUserId + 1
    /\ IF UsersWith(req[p].username, req[p].email, 0) = {}
       THEN LET t == sign(nextUserId, req[p].body_role, now) IN
            /\ users' = [users EXCEPT ![nextUserId] = req[p].body_role]
            /\ accounts' = [accounts EXCEPT ![nextUserId] =
                              [username |-> req[p].username, email |-> req[p].email,
                               password_hash |-> hash(req[p].password)]]
            /\ tokens' = [tokens EXCEPT ![nextUserId] = t]
            /\ Finish(p, [Resp(201, "user_registered") EXCEPT !.rows = 1, !.token = t])
       ELSE /\ UNCHANGED <<users, accounts, tokens>>
            /\ Finish(p, Resp(500, "internal_error"))
    /\ UNCHANGED <<rt, events, nextEventId, regs, nextRegId, now, req>>

\* ---------------------------------------------------- POST /api/auth/login
BeginLogin(p) ==
    /\ At(p, "idle")
    /\ \E e \in Emails \cup {""}, pw \in Passwords \cup {""} :
         LET r == [NoReq EXCEPT !.op = "login", !.email = e, !.password = pw] IN
         /\ req' = [req EXCEPT ![p] = r]
         /\ IF e = "" \/ pw = "" THEN Finish(p, Resp(400, "validation_failed"))
            ELSE Goto(p, "li_select", NoLoc)
    /\ UNCHANGED <<rt, creds, db, now>>

\* LiSelect as it would be if a wrong password had a message of its own
LiSelectTelling(p) ==
    /\ At(p, "li_select")
    /\ LET rows == UsersWith("", req[p].email, 0) IN
         IF rows = {}
         THEN /\ Finish(p, Resp(401, "invalid_email_or_password"))
              /\ tokens' = tokens
         ELSE \E u \in rows :
                IF ~compare(req[p].password, accounts[u].password_hash)
                THEN /\ Finish(p, Resp(401, "wrong_password"))
                     /\ tokens' = tokens
                ELSE LET t == sign(u, users[u], now) IN
                     /\ Finish(p, [Resp(200, "login_successful") EXCEPT !.token = t])
                     /\ tokens' = [tokens EXCEPT ![u] = t]
    /\ UNCHANGED <<rt, db, now, req, accounts, nextUserId>>

\* SELECT id, username, email, password_hash, role FROM users WHERE email = $1,
\* then bcrypt.compare and jwt.sign({userId, username, role}) on the row read
LiSelect(p) ==
    /\ At(p, "li_select")
    /\ LET rows == UsersWith("", req[p].email, 0) IN
         IF rows = {}
         THEN /\ Finish(p, Resp(401, "invalid_email_or_password"))
              /\ tokens' = tokens
         ELSE \E u \in rows :
                IF ~compare(req[p].password, accounts[u].password_hash)
                THEN /\ Finish(p, Resp(401, "invalid_email_or_password"))
                     /\ tokens' = tokens
                ELSE LET t == sign(u, users[u], now) IN
                     /\ Finish(p, [Resp(200, "login_successful") EXCEPT !.token = t])
                     /\ tokens' = [tokens EXCEPT ![u] = t]
    /\ UNCHANGED <<rt, db, now, req, accounts, nextUserId>>

\* ---------------------------------------------------- PUT /api/auth/profile
\* the route has no schema: username and email are whatever the body carries
BeginUpdateProfile(p) ==
    /\ At(p, "idle")
    /\ \E caller \in UserIds, n \in Names \cup {""}, e \in Emails \cup {""} :
         LET r == [Request("updateProfile", caller) EXCEPT !.username = n, !.email = e] IN
         /\ tokens[caller] # NoToken
         /\ req' = [req EXCEPT ![p] = r]
         /\ IF expired(tokens[caller]) THEN Finish(p, Resp(401, "token_expired"))
            ELSE IF users[caller] = NoUser THEN Finish(p, Resp(401, "user_not_found"))
            ELSE IF n = "" /\ e = "" THEN Finish(p, Resp(400, "field_required"))
            ELSE Goto(p, "pr_select", NoLoc)
    /\ UNCHANGED <<rt, creds, db, now>>

\* SELECT id FROM users WHERE (username = $1 OR email = $2) AND id != $3
PrSelect(p) ==
    /\ At(p, "pr_select")
    /\ IF UsersWith(req[p].username, req[p].email, req[p].caller) # {}
       THEN Finish(p, Resp(409, "username_or_email_exists"))
       ELSE Goto(p, "pr_update", NoLoc)
    /\ UNCHANGED <<rt, creds, db, now, req>>

\* PrUpdate as it would be if the users table had no UNIQUE constraints
PrUpdateNoUnique(p) ==
    /\ At(p, "pr_update")
    /\ LET u == req[p].caller IN
         IF users[u] = NoUser
         THEN /\ accounts' = accounts
              /\ Finish(p, Resp(200, "profile_updated"))
         ELSE /\ accounts' = [accounts EXCEPT
                    ![u].username = IF req[p].username # "" THEN req[p].username ELSE @,
                    ![u].email = IF req[p].email # "" THEN req[p].email ELSE @]
              /\ Finish(p, [Resp(200, "profile_updated") EXCEPT !.rows = 1])
    /\ UNCHANGED <<rt, db, now, req, nextUserId, tokens>>

\* UPDATE users SET username = $1, email = $2 WHERE id = $3 RETURNING ..., under
\* UNIQUE(username) and UNIQUE(email); no row matched is still answered 200
PrUpdate(p) ==
    /\ At(p, "pr_update")
    /\ LET u == req[p].caller IN
         IF users[u] = NoUser
         THEN /\ accounts' = accounts
              /\ Finish(p, Resp(200, "profile_updated"))
         ELSE IF UsersWith(req[p].username, req[p].email, u) # {}
         THEN /\ accounts' = accounts
              /\ Finish(p, Resp(500, "internal_error"))
         ELSE /\ accounts' = [accounts EXCEPT
                    ![u].username = IF req[p].username # "" THEN req[p].username ELSE @,
                    ![u].email = IF req[p].email # "" THEN req[p].email ELSE @]
              /\ Finish(p, [Resp(200, "profile_updated") EXCEPT !.rows = 1])
    /\ UNCHANGED <<rt, db, now, req, nextUserId, tokens>>

\* ------------------------------------------ PUT /api/auth/change-password
MinPasswordLength == 6          \* newPassword.length < 6 is refused
NewPasswords == Passwords \cup {"", "abc"}

\* authenticateToken, then the checks of the body
BeginChangePassword(p) ==
    /\ At(p, "idle")
    /\ \E caller \in UserIds, pw \in Passwords \cup {""}, new \in NewPasswords :
         LET r == [Request("changePassword", caller) EXCEPT
                     !.password = pw, !.newPassword = new] IN
         /\ tokens[caller] # NoToken
         /\ req' = [req EXCEPT ![p] = r]
         /\ IF expired(tokens[caller]) THEN Finish(p, Resp(401, "token_expired"))
            ELSE IF users[caller] = NoUser THEN Finish(p, Resp(401, "user_not_found"))
            ELSE IF pw = "" \/ new = "" THEN Finish(p, Resp(400, "passwords_required"))
            ELSE IF Len(new) < MinPasswordLength THEN Finish(p, Resp(400, "password_too_short"))
            ELSE Goto(p, "cp_select", NoLoc)
    /\ UNCHANGED <<rt, creds, db, now>>

\* SELECT password_hash FROM users WHERE id = $1, then bcrypt.compare
CpSelect(p) ==
    /\ At(p, "cp_select")
    /\ LET u == req[p].caller IN
         IF users[u] = NoUser THEN Finish(p, Resp(404, "user_not_found"))
         ELSE IF ~compare(req[p].password, accounts[u].password_hash)
         THEN Finish(p, Resp(401, "current_password_incorrect"))
         ELSE Goto(p, "cp_update", NoLoc)
    /\ UNCHANGED <<rt, creds, db, now, req>>

\* UPDATE users SET password_hash = $1 WHERE id = $2
CpUpdate(p) ==
    /\ At(p, "cp_update")
    /\ LET u == req[p].caller IN
         accounts' = IF users[u] = NoUser THEN accounts
                     ELSE [accounts EXCEPT ![u].password_hash = hash(req[p].newPassword)]
    /\ Finish(p, Resp(200, "password_changed"))
    /\ UNCHANGED <<rt, db, now, req, nextUserId, tokens>>

\* ---------------------------------------- GET /api/registrations/manage
DefaultLimit == 10      \* const { page = 1, limit = 10 } = req.query

\* the WHERE clause the handler builds: e.created_by = $1, then the optional
\* r.event_id and r.status conditions (a query parameter left out is 0 or "")
ManagedRows(r) ==
    {reg \in regs : /\ EventExists(reg.event_id) /\ users[reg.user_id] # NoUser
                    /\ events[reg.event_id].created_by = r.caller
                    /\ (r.event_id # 0 => reg.event_id = r.event_id)
                    /\ (r.status # "" => reg.status = r.status)}

\* LIMIT $n OFFSET 0: the rows of page 1
Page(rows) ==
    IF Cardinality(rows) <= DefaultLimit THEN rows
    ELSE CHOOSE page \in SUBSET rows : Cardinality(page) = DefaultLimit

BeginListManaged(p) ==
    /\ At(p, "idle")
    /\ \E caller \in UserIds, e \in EventIds \cup {0}, st \in BodyStatuses \cup {""} :
         LET r == [Request("listManaged", caller) EXCEPT !.event_id = e, !.status = st]
             g == Gate(caller, requireOrganizer) IN
         /\ req' = [req EXCEPT ![p] = r]
         /\ IF g # NoResp THEN Finish(p, g) ELSE Goto(p, "lm_count", NoLoc)
    /\ UNCHANGED <<rt, creds, db, now>>

\* SELECT COUNT(*) as total FROM registrations r JOIN events e ... WHERE ...
LmCount(p) ==
    /\ At(p, "lm_count")
    /\ Goto(p, "lm_list", [NoLoc EXCEPT !.count = Cardinality(ManagedRows(req[p]))])
    /\ UNCHANGED <<rt, creds, db, now, req>>

\* SELECT r.id, ... FROM registrations r JOIN events e ... JOIN users u ... WHERE ...
LmList(p) ==
    /\ At(p, "lm_list")
    /\ Finish(p, [Resp(200, "registrations") EXCEPT
                    !.rows = loc[p].count,
                    !.data = {reg.id : reg \in Page(ManagedRows(req[p]))}])
    /\ UNCHANGED <<rt, creds, db, now, req>>

\* ------------------------------------------------- GET /api/events/<path>
\* the GET routes of the events router in the order router.get declares them; a
\* request is handled by the first whose pattern matches its path
EventRoutes ==
    << [pattern |-> <<>>, handler |-> "listEvents"],
       [pattern |-> <<":id">>, handler |-> "getEvent"],
       [pattern |-> <<"my-events">>, handler |-> "myEvents"] >>

Matches(pattern, path) ==
    /\ Len(pattern) = Len(path)
    /\ \A i \in 1..Len(pattern) : pattern[i] = ":id" \/ pattern[i] = path[i]

Dispatch(path) ==
    LET hits == {i \in 1..Len(EventRoutes) : Matches(EventRoutes[i].pattern, path)} IN
    IF hits = {} THEN "none"
    ELSE EventRoutes[CHOOSE i \in hits : \A j \in hits : i <= j].handler

\* the text of :id as PostgreSQL reads it for the integer column; 0: not a number
ParseId(text) ==
    IF \E e \in EventIds : ToString(e) = text
    THEN CHOOSE e \in EventIds : ToString(e) = text
    ELSE 0

\* parseInt of the text node-postgres hands back for COUNT(r.id)
parseInt(text) == CHOOSE n \in 0..MaxRegId : ToString(n) = text

\* the handler of GET /api/events/:id: the event with its approved registrations
\* counted, is_full = current_attendees >= max_attendees
getEvent(id) ==
    IF id = 0 THEN Resp(500, "internal_error")
    ELSE IF ~EventExists(id) THEN Resp(404, "event_not_found")
    ELSE LET current_attendees == parseInt(ToString(ApprovedCount(id))) IN
         [Resp(200, "event") EXCEPT
            !.rows = 1, !.data = {id},
            !.event = [eventRow(id, events[id]) EXCEPT
                         !.current_attendees = current_attendees,
                         !.is_full = current_attendees >= events[id].max_attendees]]

Paths == {<<ToString(e)>> : e \in EventIds} \cup {<<"my-events">>}

\* GET /api/events/:id is public: SELECT ... FROM events e ... WHERE e.id = $1, the
\* statement failing when $1 is no integer.  GET /api/events/my-events is behind
\* authenticateToken and requireOrganizer: SELECT ... WHERE e.created_by = $1.
\* caller 0: a request that bears no token
GetEventsPath(p) ==
    /\ At(p, "idle")
    /\ \E caller \in UserIds \cup {0}, path \in Paths :
         LET h == Dispatch(path)
             r == IF caller = 0
                  THEN [NoReq EXCEPT !.op = h, !.bearer = "missing", !.path = path]
                  ELSE [Request(h, caller) EXCEPT !.path = path]
             id == ParseId(path[1]) IN
         /\ req' = [req EXCEPT ![p] = r]
         /\ IF h = "getEvent"
            THEN Finish(p, getEvent(id))
            ELSE IF caller = 0 THEN Finish(p, Resp(401, "token_required"))
            ELSE IF Gate(caller, requireOrganizer) # NoResp
            THEN Finish(p, Gate(caller, requireOrganizer))
            ELSE LET mine == {e \in EventIds : EventExists(e) /\ events[e].created_by = caller} IN
                 Finish(p, [Resp(200, "my_events") EXCEPT
                              !.rows = Cardinality(mine), !.data = mine])
    /\ UNCHANGED <<rt, creds, db, now>>

\* the client that has the answer to its POST /api/events in hand asks, on its
\* other connection q, for GET /api/events/<the id of the row it was handed>
GetAfterCreate(q) ==
    /\ pc[q] = "idle"
    /\ \E p \in Procs \ {q} :
         /\ pc[p] = "done" /\ req[p].op = "createEvent" /\ resp[p].code = 201
         /\ LET path == <<ToString(resp[p].event.id)>> IN
              /\ Dispatch(path) = "getEvent"
              /\ req' = [req EXCEPT ![q] = [NoReq EXCEPT !.op = "getEvent",
                                             !.bearer = "missing", !.path = path]]
              /\ Finish(q, getEvent(ParseId(path[1])))
    /\ UNCHANGED <<rt, creds, db, now>>

\* ---------------------------------- authenticateToken without a valid token
\* the routes whose chain starts with authenticateToken
ProtectedOps == {"register", "cancel", "setStatus", "bulkSetStatus", "listManaged",
                 "createEvent", "updateEvent", "deleteEvent", "updateProfile"}

\* no Authorization header ("missing"), or a token jwt.verify throws on ("invalid")
Unauthenticated(p) ==
    /\ At(p, "idle")
    /\ \E op \in ProtectedOps, b \in {"missing", "invalid"} :
         /\ req' = [req EXCEPT ![p] = [NoReq EXCEPT !.op = op, !.bearer = b]]
         /\ Finish(p, Resp(401, IF b = "missing" THEN "token_required" ELSE "invalid_token"))
    /\ UNCHANGED <<rt, creds, db, now>>

\* ------------------------------------------------ outside the HTTP surface
\* A user row deleted directly in the store: events.created_by and
\* registrations.user_id are ON DELETE CASCADE, and so is registrations.event_id
DeleteUser(u) ==
    /\ ~Responding
    /\ users[u] # NoUser
    /\ users' = [users EXCEPT ![u] = NoUser]
    /\ accounts' = [accounts EXCEPT ![u] = NoAccount]
    /\ events' = [e \in EventIds |-> IF events[e].created_by = u THEN NoEvent ELSE events[e]]
    /\ regs' = {r \in regs : r.user_id # u /\ events[r.event_id].created_by # u}
    /\ UNCHANGED <<rt, nextEventId, nextRegId, now, pc, req, loc, resp, nextUserId, tokens>>

\* the role column of a user row rewritten directly in the store (no route does it)
ChangeRole(u, role) ==
    /\ ~Responding
    /\ users[u] \notin {NoUser, role}
    /\ users' = [users EXCEPT ![u] = role]
    /\ UNCHANGED <<rt, events, nextEventId, regs, nextRegId, now, pc, req, loc, resp, creds>>

\* the wall clock that new Date() and NOW() read
Tick ==
    /\ ~Responding
    /\ now < MaxTime
    /\ now' = now + 1
    /\ UNCHANGED <<rt, creds, db, pc, req, loc, resp>>

\* ------------------------------------------------------ socket.io server
SocketIds == {1, 2}             \* connections the server may hold together
NoSocket == [userId |-> 0, userRole |-> NoUser, rooms |-> {}]
NoEmit == [type |-> "none", eventId |-> 0, attendeeCount |-> 0, updatedBy |-> 0, to |-> {}]
NoClient == [mounted |-> FALSE, user |-> 0, socket |-> 0, listening |-> {},
             viewing |-> 0, current_attendees |-> 0, is_full |-> FALSE]

Room(kind, id) == [kind |-> kind, id |-> id]
\* io.to(room): the sockets that are in the room
Members(room) == {s \in SocketIds : room \in sockets[s].rooms}
Accepted == {s \in SocketIds : sockets[s] # NoSocket}

\* the numbers a client may put in the attendeeCount of a message it sends
Counts == 0..MaxRegId
\* updateData of registration_update as a client may send it; eventId 0: one
\* that is no integer, on which the COUNT statement fails
UpdateData == [eventId : EventIds \cup {0}, attendeeCount : Counts]

\* handleAttendeeUpdate of the EventProvider, run when the socket it was attached
\* to receives attendee_update: the event on display takes the pushed count
Receive(m) ==
    IF /\ m.type = "attendee_update"
       /\ client.socket \in m.to
       /\ client.socket \in client.listening
       /\ client.viewing = m.eventId
    THEN [client EXCEPT !.current_attendees = m.attendeeCount,
                        !.is_full = m.attendeeCount >= events[m.eventId].max_attendees]
    ELSE client

\* io.to(...).emit(type, ...) and socket.emit(type, ...)
Emit(m) == emitted' = m /\ client' = Receive(m)

\* the socket the server sets up for a token jwt.verify accepts: userId and
\* userRole are the token's claims; it joins user_<id> and, by role, organizers
accept(token) ==
    [userId |-> token.userId, userRole |-> token.role,
     rooms |-> {Room("user", token.userId)}
               \cup (IF token.role \in {"organizer", "admin"}
                     THEN {Room("organizers", 0)} ELSE {})]

\* io.use and io.on('connection'); u = 0: a handshake with no token or with one
\* jwt.verify rejects, which next(new Error(...)) refuses
Connect(s) ==
    /\ sockets[s] = NoSocket
    /\ s # client.socket
    /\ \E u \in UserIds \cup {0} :
         IF u = 0 \/ (u # 0 /\ (tokens[u] = NoToken \/ expired(tokens[u])))
         THEN /\ sockets' = sockets
              /\ Emit([NoEmit EXCEPT !.type = "connect_error", !.to = {s}])
         ELSE /\ sockets' = [sockets EXCEPT ![s] = accept(tokens[u])]
              /\ UNCHANGED <<emitted, client>>
    /\ UNCHANGED <<creds, db, now, pc, req, loc, resp>>

\* socket.on('disconnect'): the socket is out of every room
Disconnect(s) ==
    /\ s \in Accepted
    /\ s # client.socket
    /\ sockets' = [sockets EXCEPT ![s] = NoSocket]
    /\ UNCHANGED <<emitted, client, creds, db, now, pc, req, loc, resp>>

\* socket.on('join_event', eventId): socket.join(`event_${eventId}`)
JoinEvent(s, e) ==
    /\ s \in Accepted
    /\ sockets' = [sockets EXCEPT ![s].rooms = @ \cup {Room("event", e)}]
    /\ UNCHANGED <<emitted, client, creds, db, now, pc, req, loc, resp>>

\* socket.on('leave_event', eventId): socket.leave(`event_${eventId}`)
LeaveEvent(s, e) ==
    /\ s \in Accepted
    /\ sockets' = [sockets EXCEPT ![s].rooms = @ \ {Room("event", e)}]
    /\ UNCHANGED <<emitted, client, creds, db, now, pc, req, loc, resp>>

\* RegistrationUpdate as it would be if it passed on the count of the message
RegistrationUpdateTrusting(s) ==
    /\ s \in Accepted
    /\ \E updateData \in UpdateData :
         IF sockets[s].userRole \notin {"organizer", "admin"}
         THEN Emit([NoEmit EXCEPT !.type = "error", !.to = {s}])
         ELSE IF updateData.eventId = 0
         THEN Emit([NoEmit EXCEPT !.type = "error", !.to = {s}])
         ELSE Emit([type |-> "attendee_update", eventId |-> updateData.eventId,
                    updatedBy |-> sockets[s].userId,
                    attendeeCount |-> updateData.attendeeCount,
                    to |-> Members(Room("event", updateData.eventId))])
    /\ UNCHANGED <<sockets, creds, db, now, pc, req, loc, resp>>

\* RegistrationUpdate as it would be if it emitted to every socket
RegistrationUpdateToAll(s) ==
    /\ s \in Accepted
    /\ \E updateData \in UpdateData :
         IF sockets[s].userRole \notin {"organizer", "admin"}
         THEN Emit([NoEmit EXCEPT !.type = "error", !.to = {s}])
         ELSE IF updateData.eventId = 0
         THEN Emit([NoEmit EXCEPT !.type = "error", !.to = {s}])
         ELSE Emit([type |-> "attendee_update", eventId |-> updateData.eventId,
                    updatedBy |-> sockets[s].userId,
                    attendeeCount |-> parseInt(ToString(ApprovedCount(updateData.eventId))),
                    to |-> Accepted])
    /\ UNCHANGED <<sockets, creds, db, now, pc, req, loc, resp>>

\* socket.on('registration_update', updateData): the role check on
\* socket.userRole, SELECT COUNT(*) FROM registrations WHERE event_id = $1 AND
\* status = 'approved', io.to(`event_${eventId}`).emit('attendee_update', ...);
\* the catch emits an error to the socket
RegistrationUpdate(s) ==
    /\ s \in Accepted
    /\ \E updateData \in UpdateData :
         IF sockets[s].userRole \notin {"organizer", "admin"}
         THEN Emit([NoEmit EXCEPT !.type = "error", !.to = {s}])
         ELSE IF updateData.eventId = 0
         THEN Emit([NoEmit EXCEPT !.type = "error", !.to = {s}])
         ELSE Emit([type |-> "attendee_update", eventId |-> updateData.eventId,
                    updatedBy |-> sockets[s].userId,
                    attendeeCount |-> parseInt(ToString(ApprovedCount(updateData.eventId))),
                    to |-> Members(Room("event", updateData.eventId))])
    /\ UNCHANGED <<sockets, creds, db, now, pc, req, loc, resp>>

\* socket.on('event_created', ...): io.emit('new_event', ...)
EventCreated(s) ==
    /\ s \in Accepted
    /\ Emit([NoEmit EXCEPT !.type = "new_event", !.to = Accepted])
    /\ UNCHANGED <<sockets, creds, db, now, pc, req, loc, resp>>

\* socket.on('new_registration', ...):
\* io.to('organizers').emit('registration_notification', ...)
NewRegistration(s) ==
    /\ s \in Accepted
    /\ \E e \in EventIds :
         Emit([NoEmit EXCEPT !.type = "registration_notification", !.eventId = e,
                             !.to = Members(Room("organizers", 0))])
    /\ UNCHANGED <<sockets, creds, db, now, pc, req, loc, resp>>

\* ------------------------------------------------------------ the browser
\* App renders AuthProvider and EventProvider inside it: the effect of
\* EventProvider runs once, on mount, and attaches its handlers to the socket
\* socketService holds then, if it holds one
Mount ==
    /\ ~client.mounted
    /\ client' = [client EXCEPT
                    !.mounted = TRUE,
                    !.listening = IF client.socket # 0 THEN {client.socket} ELSE {}]
    /\ UNCHANGED <<sockets, emitted, creds, db, now, pc, req, loc, resp>>

\* socketService.connect(token): the socket it held is disconnected and a new
\* one is made, which the server accepts and which bears no handler yet
connect(u, s) ==
    /\ s # client.socket
    /\ sockets[s] = NoSocket
    /\ tokens[u] # NoToken /\ ~expired(tokens[u])
    /\ sockets' = [t \in SocketIds |->
                     IF t = s THEN accept(tokens[u])
                     ELSE IF t = client.socket THEN NoSocket ELSE sockets[t]]
    /\ client' = [client EXCEPT !.user = u, !.socket = s]

\* login and register of AuthProvider, once the server has answered with a token
ClientLogin(u) ==
    /\ client.mounted /\ client.user = 0
    /\ users[u] # NoUser
    /\ \E s \in SocketIds : connect(u, s)
    /\ UNCHANGED <<emitted, creds, db, now, pc, req, loc, resp>>

\* checkExistingLogin of AuthProvider: the token kept in localStorage is
\* checked with GET /me and the socket connected
ClientRestore ==
    /\ client.mounted /\ client.user # 0 /\ client.socket = 0
    /\ users[client.user] # NoUser
    /\ \E s \in SocketIds : connect(client.user, s)
    /\ UNCHANGED <<emitted, creds, db, now, pc, req, loc, resp>>

\* logout of AuthProvider: localStorage is cleared, socketService.disconnect()
ClientLogout ==
    /\ client.mounted /\ client.user # 0
    /\ client' = [client EXCEPT !.user = 0, !.socket = 0]
    /\ sockets' = [t \in SocketIds |-> IF t = client.socket THEN NoSocket ELSE sockets[t]]
    /\ UNCHANGED <<emitted, creds, db, now, pc, req, loc, resp>>

\* the page is loaded anew: localStorage keeps the token, the module state of
\* socketService and the state of the providers start over
Reload ==
    /\ client.mounted
    /\ client' = [NoClient EXCEPT !.user = client.user]
    /\ sockets' = [t \in SocketIds |-> IF t = client.socket THEN NoSocket ELSE sockets[t]]
    /\ UNCHANGED <<emitted, creds, db, now, pc, req, loc, resp>>

\* fetchEvent of EventProvider: GET /api/events/:id, setCurrentEvent, and
\* socketService.joinEvent(eventId) when there is a socket
FetchEvent(e) ==
    /\ client.mounted
    /\ getEvent(e).code = 200
    /\ client' = [client EXCEPT
                    !.viewing = e,
                    !.current_attendees = getEvent(e).event.current_attendees,
                    !.is_full = getEvent(e).event.is_full]
    /\ sockets' = [t \in SocketIds |->
                     IF t = client.socket
                     THEN [sockets[t] EXCEPT !.rooms = @ \cup {Room("event", e)}]
                     ELSE sockets[t]]
    /\ UNCHANGED <<emitted, creds, db, now, pc, req, loc, resp>>

\* --------------------------------------------------------- specifications
InitUsers == (1 :> "admin") @@ (2 :> "organizer") @@ (3 :> "student")

\* the seeded rows admin, organizer1 and student1, which share one password
InitAccounts ==
    (1 :> [username |-> "admin", email |-> "admin@campus.edu",
           password_hash |-> hash("password123")])
    @@ (2 :> [username |-> "organizer1", email |-> "organizer1@campus.edu",
              password_hash |-> hash("password123")])
    @@ (3 :> [username |-> "student1", email |-> "student1@campus.edu",
              password_hash |-> hash("password123")])

Init ==
    /\ users = InitUsers
    /\ events = [e \in EventIds |-> NoEvent]
    /\ nextEventId = 1
    /\ regs = {}
    /\ nextRegId = 1
    /\ now = 0
    /\ pc = [p \in Procs |-> "idle"]
    /\ req = [p \in Procs |-> NoReq]
    /\ loc = [p \in Procs |-> NoLoc]
    /\ resp = [p \in Procs |-> NoResp]
    /\ accounts = InitAccounts
    /\ nextUserId = Cardinality(UserIds) + 1
    /\ tokens = [u \in UserIds |-> sign(u, InitUsers[u], 0)]
    /\ sockets = [s \in SocketIds |-> NoSocket]
    /\ emitted = NoEmit
    /\ client = NoClient

Register(p) == BeginRegister(p) \/ RegEvent(p) \/ RegExisting(p) \/ RegCount(p) \/ RegInsert(p)
Cancel(p) == BeginCancel(p) \/ CanSelect(p) \/ CanDelete(p)
SetStatus(p) == BeginSetStatus(p) \/ SsSelect(p) \/ SsCount(p) \/ SsMax(p) \/ SsUpdate(p)
CreateEvent(p) == BeginCreateEvent(p) \/ CeInsert(p)
DeleteEvent(p) == BeginDeleteEvent(p) \/ requireOwnershipOrAdmin(p) \/ DeExists(p) \/ DeDelete(p)
UpdateEvent(p) == BeginUpdateEvent(p) \/ UeExists(p) \/ UeUpdate(p)

\* no other request is between two of its database calls
Solo(p) == \A q \in Procs \ {p} : ~InFlight(q)
\* the requests in flight are all of the kinds `ops`
Racing(ops) == \A q \in Procs : InFlight(q) => req[q].op \in ops

\* Every handler of the API, one request at a time, each running to completion.
Next ==
    \/ Register(SeqProc) \/ Cancel(SeqProc) \/ SetStatus(SeqProc) \/ BulkSetStatus(SeqProc)
    \/ CreateEvent(SeqProc) \/ DeleteEvent(SeqProc) \/ UpdateEvent(SeqProc)
    \/ Return(SeqProc)
    \/ Tick

Spec == Init /\ [][Next]_vars

RegisterUser(p) == BeginRegisterUser(p) \/ RuSelect(p) \/ RuInsert(p)
Login(p) == BeginLogin(p) \/ LiSelect(p)
UpdateProfile(p) == BeginUpdateProfile(p) \/ PrSelect(p) \/ PrUpdate(p)
ListManaged(p) == BeginListManaged(p) \/ LmCount(p) \/ LmList(p)

\* Every handler of the API together with the read-only routes and the requests
\* that bear no valid token, one request at a time.
NextApi ==
    \/ Next
    \/ ListManaged(SeqProc)
    \/ GetEventsPath(SeqProc)
    \/ Unauthenticated(SeqProc)

SpecApi == Init /\ [][NextApi]_vars

\* Every route behind authenticateToken of the events and registrations routers
\* and the requests that bear no valid token, one request at a time, all within
\* one instant of the clock.
NextGate ==
    \/ Register(SeqProc) \/ Cancel(SeqProc) \/ SetStatus(SeqProc) \/ BulkSetStatus(SeqProc)
    \/ CreateEvent(SeqProc) \/ DeleteEvent(SeqProc) \/ UpdateEvent(SeqProc)
    \/ ListManaged(SeqProc)
    \/ Unauthenticated(SeqProc)
    \/ Return(SeqProc)

SpecGate == Init /\ [][NextGate]_vars

\* The routes that write, behind authenticateToken, one request at a time within
\* one instant of the clock, while user rows are deleted in the store.
NextRevoke ==
    \/ Register(SeqProc) \/ Cancel(SeqProc) \/ SetStatus(SeqProc) \/ BulkSetStatus(SeqProc)
    \/ CreateEvent(SeqProc) \/ DeleteEvent(SeqProc) \/ UpdateEvent(SeqProc)
    \/ Return(SeqProc)
    \/ \E u \in UserIds : DeleteUser(u)

SpecRevoke == Init /\ [][NextRevoke]_vars

\* One request at a time, and no event is edited.
NextSeq ==
    \/ Register(SeqProc) \/ Cancel(SeqProc) \/ SetStatus(SeqProc) \/ BulkSetStatus(SeqProc)
    \/ CreateEvent(SeqProc) \/ DeleteEvent(SeqProc)
    \/ Return(SeqProc)
    \/ Tick

SpecSeq == Init /\ [][NextSeq]_vars

\* Events are created from every body a client may send and read back, and
\* students register for them, one request at a time but for the read that
\* follows a create, all within one instant of the clock.
NextRoundTrip ==
    \/ BeginCreateEventOf(SeqProc, EventBodies) \/ CeInsert(SeqProc)
    \/ \E q \in Procs : GetAfterCreate(q)
    \/ GetEventsPath(SeqProc)
    \/ Register(SeqProc) \/ SetStatus(SeqProc)
    \/ \E p \in Procs : Return(p)

SpecRoundTrip == Init /\ [][NextRoundTrip]_vars

\* the store once the seeded organizer has created an event and the seeded
\* student has registered for it; the organizer has since been made a student
\* in the store and holds the token issued before
InitSockets ==
    /\ users = [InitUsers EXCEPT ![2] = "student"]
    /\ events = [e \in EventIds |->
                   [title |-> PlainBody.title, description |-> PlainBody.description,
                    location |-> PlainBody.location, max_attendees |-> 1,
                    created_by |-> 2, date |-> MaxTime]]
    /\ nextEventId = Cardinality(EventIds) + 1
    /\ regs = {[id |-> 1, event_id |-> 1, user_id |-> 3, status |-> "pending"]}
    /\ nextRegId = 2
    /\ now = 0
    /\ pc = [p \in Procs |-> "idle"]
    /\ req = [p \in Procs |-> NoReq]
    /\ loc = [p \in Procs |-> NoLoc]
    /\ resp = [p \in Procs |-> NoResp]
    /\ accounts = InitAccounts
    /\ nextUserId = Cardinality(UserIds) + 1
    /\ tokens = [u \in UserIds |-> sign(u, InitUsers[u], 0)]
    /\ sockets = [s \in SocketIds |-> NoSocket]
    /\ emitted = NoEmit
    /\ client = NoClient

\* The socket.io server beside the route that sets the status of
\* registrations, one request at a time within one instant of the clock.
NextSockets ==
    \/ SetStatus(SeqProc) \/ Return(SeqProc)
    \/ \E s \in SocketIds :
          \/ Connect(s) \/ Disconnect(s)
          \/ \E e \in EventIds : JoinEvent(s, e) \/ LeaveEvent(s, e)
          \/ RegistrationUpdate(s) \/ NewRegistration(s)

SpecSockets == InitSockets /\ [][NextSockets]_vars

\* One browser beside the socket.io server, the sockets of other clients and
\* the route that sets the status of registrations.
NextClient ==
    \/ SetStatus(SeqProc) \/ Return(SeqProc)
    \/ Mount \/ ClientRestore \/ ClientLogout \/ Reload
    \/ \E u \in UserIds : ClientLogin(u)
    \/ \E e \in EventIds : FetchEvent(e)
    \/ \E s \in SocketIds :
          \/ Connect(s) \/ RegistrationUpdate(s) \/ EventCreated(s)

SpecClient == InitSockets /\ [][NextClient]_vars

\* Status updates in flight together, their database calls interleaving; events
\* and registrations are created by requests that begin when no other is in flight.
NextApprove ==
    \/ Solo(SeqProc) /\ BeginCreateEvent(SeqProc)
    \/ CeInsert(SeqProc)
    \/ Solo(SeqProc) /\ BeginRegister(SeqProc)
    \/ RegEvent(SeqProc) \/ RegExisting(SeqProc) \/ RegCount(SeqProc) \/ RegInsert(SeqProc)
    \/ \E p \in Procs :
         \/ Racing({"setStatus"}) /\ BeginSetStatus(p)
         \/ SsSelect(p) \/ SsCount(p) \/ SsMax(p) \/ SsUpdate(p)
         \/ Return(p)
    \/ Tick

SpecApprove == Init /\ [][NextApprove]_vars

\* Registrations and event deletions in flight together, and users deleted in the
\* store meanwhile; events are created by requests that begin when no other is in
\* flight.
RacingOps == {"register", "deleteEvent"}

NextRace ==
    \/ Solo(SeqProc) /\ BeginCreateEvent(SeqProc)
    \/ CeInsert(SeqProc)
    \/ \E p \in Procs :
         \/ Racing(RacingOps) /\ BeginRegister(p)
         \/ RegEvent(p) \/ RegExisting(p) \/ RegCount(p) \/ RegInsert(p)
         \/ Racing(RacingOps) /\ BeginDeleteEvent(p)
         \/ requireOwnershipOrAdmin(p) \/ DeExists(p) \/ DeDelete(p)
         \/ Return(p)
    \/ \E u \in UserIds : DeleteUser(u)
    \/ Tick

SpecRace == Init /\ [][NextRace]_vars

\* Requests that set the status of a registration in flight together with
\* requests that cancel one; events are created and students register by
\* requests that begin when no other is in flight, all within one instant of
\* the clock.
StatusRacingOps == {"setStatus", "cancel"}

NextStatusRace ==
    \/ Solo(SeqProc) /\ BeginCreateEvent(SeqProc)
    \/ CeInsert(SeqProc)
    \/ Solo(SeqProc) /\ BeginRegister(SeqProc)
    \/ RegEvent(SeqProc) \/ RegExisting(SeqProc) \/ RegCount(SeqProc) \/ RegInsert(SeqProc)
    \/ \E p \in Procs :
         \/ Racing(StatusRacingOps) /\ BeginSetStatus(p)
         \/ SsSelect(p) \/ SsCount(p) \/ SsMax(p) \/ SsUpdate(p)
         \/ Racing(StatusRacingOps) /\ BeginCancel(p)
         \/ CanSelect(p) \/ CanDelete(p)
         \/ Return(p)

SpecStatusRace == Init /\ [][NextStatusRace]_vars

\* The tables as setupDatabase leaves them: no row, every sequence at its start.
InitEmpty ==
    /\ users = [u \in UserIds |-> NoUser]
    /\ accounts = [u \in UserIds |-> NoAccount]
    /\ nextUserId = 1
    /\ tokens = [u \in UserIds |-> NoToken]
    /\ sockets = [s \in SocketIds |-> NoSocket]
    /\ emitted = NoEmit
    /\ client = NoClient
    /\ events = [e \in EventIds |-> NoEvent]
    /\ nextEventId = 1
    /\ regs = {}
    /\ nextRegId = 1
    /\ now = 0
    /\ pc = [p \in Procs |-> "idle"]
    /\ req = [p \in Procs |-> NoReq]
    /\ loc = [p \in Procs |-> NoLoc]
    /\ resp = [p \in Procs |-> NoResp]

\* The account routes, requests in flight together, their database calls
\* interleaving, from the empty tables.
NextAccounts ==
    \E p \in Procs :
      \/ BeginRegisterUser(p) \/ RuSelect(p) \/ RuInsert(p)
      \/ BeginLogin(p) \/ LiSelect(p)
      \/ BeginUpdateProfile(p) \/ PrSelect(p) \/ PrUpdate(p)
      \/ Return(p)

SpecAccounts == InitEmpty /\ [][NextAccounts]_vars

\* Users register, log in and create events, one request at a time from the empty
\* tables within one instant of the clock, while roles are rewritten in the store.
NextRoles ==
    \/ RegisterUser(SeqProc)
    \/ Login(SeqProc)
    \/ CreateEvent(SeqProc)
    \/ \E u \in UserIds, role \in Roles : ChangeRole(u, role)
    \/ Return(SeqProc)

SpecRoles == InitEmpty /\ [][NextRoles]_vars

ChangePassword(p) == BeginChangePassword(p) \/ CpSelect(p) \/ CpUpdate(p)

\* Every route of the auth router that writes, one request at a time from the
\* empty tables within one instant of the clock.
NextPrivilege ==
    \/ RegisterUser(SeqProc)
    \/ Login(SeqProc)
    \/ UpdateProfile(SeqProc)
    \/ ChangePassword(SeqProc)
    \/ Return(SeqProc)

SpecPrivilege == InitEmpty /\ [][NextPrivilege]_vars

\* ------------------------------------------------------------------ claims
Capacity(e) == events[e].max_attendees

\* C1: when requests run one at a time and no event is edited, the approved
\* registrations of an event never outnumber its max_attendees.
CapacityRespected ==
    \A e \in EventIds : EventExists(e) => ApprovedCount(e) <= Capacity(e)

\* an approval was refused on an event whose approved registrations fill it
CapacityRespectedWitness ==
    \E p \in Procs, e \in EventIds :
        /\ pc[p] = "done" /\ req[p].op = "setStatus" /\ req[p].status = "approved"
        /\ resp[p].msg = "event_full_cannot_approve"
        /\ EventExists(e) /\ ApprovedCount(e) = Capacity(e)
        /\ \E r \in regs : r.id = req[p].reg_id /\ r.event_id = e /\ r.status = "pending"

\* C2: once concurrent approvals of different registrations of an event have all
\* completed, the event's approved registrations do not outnumber its max_attendees.
CapacityAfterConcurrentApprovals ==
    (\A p \in Procs : pc[p] = "idle") =>
        \A e \in EventIds : EventExists(e) => ApprovedCount(e) <= Capacity(e)

\* C3: there is at most one registration row per (event_id, user_id).
UniqueRegistration ==
    \A r1 \in regs : \A r2 \in regs :
        (r1.event_id = r2.event_id /\ r1.user_id = r2.user_id) => r1 = r2

\* two requests of one user for one event both passed the existence check; one
\* inserted its row and the store refused the other's insert
UniqueRegistrationWitness ==
    \E p \in Procs :
        /\ pc[p] = "done" /\ req[p].op = "register" /\ resp[p].code = 500
        /\ EventExists(req[p].event_id) /\ users[req[p].caller] # NoUser
        /\ RegsByPair(req[p].event_id, req[p].caller) # {}

\* the request process p is serving across a step: the one it begins, or the one in flight
Serving(p) == IF pc[p] = "idle" THEN req'[p] ELSE req[p]
\* p takes a step of its handler, and that step answers the request
Steps(p) == pc[p] # "done" /\ pc'[p] # pc[p]
Answers(p) == Steps(p) /\ pc'[p] = "done"
Future(e) == EventExists(e) /\ events[e].date > now

\* C4: a register request for a pair that already has a registration, on an
\* existing future event, is answered 409 naming the existing row's status, and no
\* row changes.
RegisterConflict ==
    [][\A p \in Procs :
         LET r == Serving(p)
             existing == RegsByPair(r.event_id, r.caller) IN
         (Steps(p) /\ r.op = "register" /\ Future(r.event_id) /\ existing # {})
         => /\ regs' = regs /\ events' = events /\ users' = users
            /\ \/ pc[p] = "idle" /\ pc'[p] = "reg_event"
               \/ pc[p] = "reg_event" /\ pc'[p] = "reg_existing"
               \/ /\ pc[p] = "reg_existing" /\ pc'[p] = "done"
                  /\ resp'[p].code = 409
                  /\ \E reg \in existing : resp'[p].status = reg.status
      ]_vars

\* a second request for a rejected registration was answered 409
RegisterConflictWitness ==
    \E p \in Procs :
        /\ pc[p] = "done" /\ req[p].op = "register"
        /\ resp[p].code = 409 /\ resp[p].status = "rejected"
        /\ \E reg \in RegsByPair(req[p].event_id, req[p].caller) : reg.status = "rejected"

\* the state of the scenario when B's request reaches the server: an event of
\* capacity 1 whose one place is taken by A's approved registration
ScenarioFull(e, b) ==
    /\ Future(e) /\ Capacity(e) = 1
    /\ \E a \in regs : a.event_id = e /\ a.status = "approved" /\ a.user_id # b
\* the approval of B's pending registration by the event's organizer or an admin
ScenarioApproval(r) ==
    /\ r.op = "setStatus" /\ r.status = "approved"
    /\ \E reg \in regs :
         /\ reg.id = r.reg_id /\ reg.status = "pending" /\ ScenarioFull(reg.event_id, reg.user_id)
         /\ (r.role = "admin" \/ events[reg.event_id].created_by = r.caller)
ScenarioApprovalRefused(p) ==
    (Answers(p) /\ ScenarioApproval(Serving(p)))
    => resp'[p].msg = "event_full_cannot_approve" /\ resp'[p].code = 400 /\ regs' = regs

\* C5 as claimed: on a full event of capacity 1, B's register request succeeds
\* and creates a pending registration; the approval of B is refused as Full.
ScenarioAsClaimed ==
    [][\A p \in Procs :
         LET r == Serving(p) IN
         /\ (Answers(p) /\ r.op = "register" /\ ScenarioFull(r.event_id, r.caller)
               /\ RegsByPair(r.event_id, r.caller) = {})
            => /\ resp'[p].code = 201
               /\ \E reg \in regs' : reg.event_id = r.event_id /\ reg.user_id = r.caller
                                      /\ reg.status = "pending"
         /\ ScenarioApprovalRefused(p)
      ]_vars

\* C5 as amended: on a full event of capacity 1, B's register request is refused
\* as Full and creates no row; the approval of a pending registration of B is
\* refused as Full and the registration stays pending.
ScenarioAmended ==
    [][\A p \in Procs :
         LET r == Serving(p) IN
         /\ (Answers(p) /\ r.op = "register" /\ ScenarioFull(r.event_id, r.caller)
               /\ RegsByPair(r.event_id, r.caller) = {})
            => resp'[p].code = 400 /\ resp'[p].msg = "event_full" /\ regs' = regs
         /\ ScenarioApprovalRefused(p)
      ]_vars

\* B's register request on the full event of capacity 1 was refused
ScenarioAmendedWitness ==
    \E p \in Procs :
        /\ pc[p] = "done" /\ req[p].op = "register" /\ resp[p].msg = "event_full"
        /\ ScenarioFull(req[p].event_id, req[p].caller)
        /\ RegsByPair(req[p].event_id, req[p].caller) = {}

\* C6: a register request of a caller with no registration on an existing future
\* event is refused as Full, inserting nothing, when the approved count has
\* reached max_attendees; otherwise it inserts exactly one pending row.
RegisterFullOrPending ==
    [][\A p \in Procs :
         LET r == Serving(p)
             e == r.event_id
             row == [id |-> nextRegId, event_id |-> e, user_id |-> r.caller,
                     status |-> "pending"] IN
         (Steps(p) /\ r.op = "register" /\ Future(e) /\ users[r.caller] # NoUser
            /\ RegsByPair(e, r.caller) = {})
         => IF ApprovedCount(e) >= Capacity(e)
            THEN /\ regs' = regs
                 /\ pc[p] # "reg_insert"
                 /\ pc'[p] = "done" =>
                      resp'[p].code = 400 /\ resp'[p].msg = "event_full"
            ELSE IF pc'[p] = "done"
            THEN /\ pc[p] = "reg_insert" /\ resp'[p].code = 201
                 /\ regs' = regs \cup {row} /\ Cardinality(regs') = Cardinality(regs) + 1
            ELSE regs' = regs
      ]_vars

\* a request inserted its pending row on an event with a free place
RegisterFullOrPendingWitness ==
    \E p \in Procs :
        /\ pc[p] = "done" /\ req[p].op = "register" /\ resp[p].code = 201
        /\ \E reg \in RegsByPair(req[p].event_id, req[p].caller) : reg.status = "pending"
        /\ ApprovedCount(req[p].event_id) < Capacity(req[p].event_id)

\* a well-formed bulk-status request of a caller the role check admits
BulkRequest(r) ==
    /\ r.op = "bulkSetStatus" /\ requireRole(r.role, requireOrganizer)
    /\ r.ids # {} /\ r.status \in Statuses
Targeted(r) == {reg \in regs : reg.id \in r.ids}
Foreign(r) == {reg \in Targeted(r) : events[reg.event_id].created_by # r.caller}

\* C7: a bulk-status request of a caller who is no admin, targeting a registration
\* of an event the caller did not create, is answered 403 and changes no row; any
\* bulk-status request that fails changes no row.
BulkAllOrNothing ==
    [][\A p \in Procs :
         LET r == Serving(p) IN
         /\ (Answers(p) /\ BulkRequest(r) /\ r.role # "admin" /\ Foreign(r) # {})
            => resp'[p].code = 403 /\ regs' = regs /\ events' = events
         /\ (Answers(p) /\ r.op = "bulkSetStatus" /\ resp'[p].code # 200) => regs' = regs
      ]_vars

\* C8: a bulk-status request of an admin, or of the organizer of every targeted
\* registration's event, succeeds and sets exactly the targeted rows to the status.
BulkUpdatesTargets ==
    [][\A p \in Procs :
         LET r == Serving(p) IN
         (Answers(p) /\ BulkRequest(r) /\ Targeted(r) # {}
            /\ (r.role = "admin" \/ Foreign(r) = {}))
         => /\ resp'[p].code = 200
            /\ regs' = {IF reg.id \in r.ids THEN [reg EXCEPT !.status = r.status] ELSE reg
                          : reg \in regs}
      ]_vars

\* C9: every registration refers to an existing event and an existing user, and
\* every event to an existing creator; a deleted event or user leaves no row behind.
ReferentialIntegrity ==
    /\ [](\A reg \in regs : EventExists(reg.event_id) /\ users[reg.user_id] # NoUser)
    /\ [](\A e \in EventIds : EventExists(e) => users[events[e].created_by] # NoUser)
    /\ [][/\ \A e \in EventIds :
               (EventExists(e) /\ events'[e] = NoEvent) =>
                   \A reg \in regs' : reg.event_id # e
          /\ \A u \in UserIds :
               (users[u] # NoUser /\ users'[u] = NoUser) =>
                   /\ \A e \in EventIds : events'[e].created_by # u
                   /\ \A reg \in regs' : reg.user_id # u
                   /\ \A reg \in regs : events[reg.event_id].created_by = u => reg \notin regs'
         ]_vars

\* the event a register request was about to insert for was deleted meanwhile,
\* and the store refused the insert
ReferentialIntegrityWitness ==
    \E p \in Procs :
        /\ pc[p] = "done" /\ req[p].op = "register" /\ resp[p].code = 500
        /\ ~EventExists(req[p].event_id)
        /\ users[req[p].caller] # NoUser

\* C10: of update and delete requests for an existing event by an authenticated
\* caller, those of a caller who is neither admin nor the event's creator are
\* answered 403 and change nothing; those of an admin or the creator succeed, and a
\* delete removes the event's registrations too.
OwnerOrAdminOnly ==
    [][\A p \in Procs :
         LET r == Serving(p)
             e == r.event_id IN
         (Steps(p) /\ r.op \in {"updateEvent", "deleteEvent"} /\ EventExists(e)
            /\ users[r.caller] # NoUser)
         => IF pc'[p] # "done" THEN events' = events /\ regs' = regs
            ELSE IF ~(r.role = "admin" \/ events[e].created_by = r.caller)
            THEN resp'[p].code = 403 /\ events' = events /\ regs' = regs
            ELSE IF r.op = "deleteEvent"
            THEN /\ resp'[p].code = 200
                 /\ events'[e] = NoEvent
                 /\ regs' = {reg \in regs : reg.event_id # e}
            ELSE IF pc[p] = "ue_update"
            THEN /\ resp'[p].code = 200 /\ regs' = regs
                 /\ events' = [events EXCEPT ![e].max_attendees = r.max_attendees,
                                             ![e].date = r.date]
            ELSE /\ resp'[p].code = 400 /\ ~eventSchema(r.date, r.max_attendees)
                 /\ events' = events /\ regs' = regs
      ]_vars

\* an organizer's request to delete an event an admin created was answered 403,
\* and the event's registration is still there
OwnerOrAdminOnlyWitness ==
    \E p \in Procs :
        /\ pc[p] = "done" /\ req[p].op = "deleteEvent" /\ resp[p].code = 403
        /\ req[p].role = "organizer"
        /\ EventExists(req[p].event_id)
        /\ \E reg \in regs : reg.event_id = req[p].event_id

\* the caller of request r may manage the registration r names: an admin, or the
\* creator of the registration's event
MayManage(r) ==
    \/ r.role = "admin"
    \/ \E reg \in RegsById(r.reg_id) : events[reg.event_id].created_by = r.caller

\* C11: a well-formed setStatus request of an authenticated caller changes a
\* registration only if the caller is an admin or the creator of the
\* registration's event; of any other caller it is answered 403 and changes
\* nothing, and for a registration that does not exist it is answered 404 (403
\* when the role check already refuses the caller) and changes nothing.
SetStatusOwnerOrAdmin ==
    [][\A p \in Procs :
         LET r == Serving(p)
             target == RegsById(r.reg_id) IN
         (Steps(p) /\ r.op = "setStatus" /\ r.status \in Statuses /\ r.role # NoUser)
         => /\ regs' # regs => (target # {} /\ MayManage(r))
            /\ (Answers(p) /\ target # {} /\ ~MayManage(r))
               => resp'[p].code = 403 /\ regs' = regs
            /\ (Answers(p) /\ target = {})
               => /\ regs' = regs
                  /\ resp'[p].code = IF requireRole(r.role, requireOrganizer) THEN 404 ELSE 403
      ]_vars

\* an organizer's request to approve a pending registration of an event the admin
\* created was answered 403, and the registration is still pending
SetStatusOwnerOrAdminWitness ==
    \E p \in Procs :
        /\ pc[p] = "done" /\ req[p].op = "setStatus" /\ req[p].status = "approved"
        /\ req[p].role = "organizer" /\ resp[p].code = 403
        /\ \E reg \in RegsById(req[p].reg_id) :
             /\ reg.status = "pending"
             /\ events[reg.event_id].created_by # req[p].caller

\* the status changes the registration workflow names
Transitions ==
    {<<"pending", "approved">>, <<"pending", "rejected">>,
     <<"approved", "rejected">>, <<"rejected", "approved">>}

\* C12: every change of the status of an existing registration is pending to
\* approved, pending to rejected, approved to rejected or rejected to approved, so
\* none returns to pending; and every registration that is created starts pending.
StatusTransitions ==
    [][/\ \A old \in regs : \A new \in regs' :
            (old.id = new.id /\ old.status # new.status)
            => <<old.status, new.status>> \in Transitions
       /\ \A new \in regs' :
            (\A old \in regs : old.id # new.id) => new.status = "pending"
      ]_vars

\* the rows of users a login request's email names, and whether one has its password
Known(r) == UsersWith("", r.email, 0)
WrongPassword(r) == \E u \in Known(r) : ~compare(r.password, accounts[u].password_hash)

\* C13: a well-formed login with an unknown email and one with a known email and
\* a wrong password get one and the same response, status 401 with the same body,
\* and neither issues a token.
LoginTellsNothing ==
    [][\A p \in Procs :
         LET r == Serving(p) IN
         (Answers(p) /\ r.op = "login" /\ r.email # "" /\ r.password # ""
            /\ (Known(r) = {} \/ WrongPassword(r)))
         => /\ resp'[p] = Resp(401, "invalid_email_or_password")
            /\ resp'[p].token = NoToken
            /\ tokens' = tokens
      ]_vars

\* a login with a registered email and another password was answered 401
LoginTellsNothingWitness ==
    \E p \in Procs :
        /\ pc[p] = "done" /\ req[p].op = "login" /\ resp[p].code = 401
        /\ Known(req[p]) # {} /\ WrongPassword(req[p])

\* the roles each protected route's chain admits
AllowedRoles(op) ==
    IF op \in {"register", "cancel", "updateProfile"} THEN {"student", "organizer", "admin"}
    ELSE {"organizer", "admin"}

\* C14: on the routes whose chain starts with authenticateToken, a request that
\* bears no valid token is answered 401 and one of a user whose role the route
\* does not admit is answered 403, both at once and changing no row; a handler
\* runs, and a row changes, only for a valid token of a user whose role the route
\* admits.
GateBeforeHandler ==
    [][\A p \in Procs :
         LET r == Serving(p) IN
         (Steps(p) /\ r.op \in ProtectedOps)
         => /\ r.bearer # "valid"
               => Answers(p) /\ resp'[p].code = 401 /\ UNCHANGED <<db, creds>>
            /\ (r.bearer = "valid" /\ r.role # NoUser /\ r.role \notin AllowedRoles(r.op))
               => Answers(p) /\ resp'[p].code = 403 /\ UNCHANGED <<db, creds>>
            /\ (pc'[p] # "done" \/ db' # db)
               => r.bearer = "valid" /\ r.role \in AllowedRoles(r.op)
      ]_vars

\* a student's request to approve a pending registration was answered 403, and
\* the registration is still pending
GateBeforeHandlerWitness ==
    \E p \in Procs :
        /\ pc[p] = "done" /\ req[p].op = "setStatus" /\ req[p].status = "approved"
        /\ req[p].role = "student" /\ resp[p].code = 403
        /\ \E reg \in RegsById(req[p].reg_id) : reg.status = "pending"

\* C15: once a user row is deleted, every request that then reaches a route behind
\* authenticateToken with a token issued to that user is answered 401 at once,
\* runs no handler and changes no row.
RevokedByDeletion ==
    [][\A p \in Procs :
         LET r == Serving(p) IN
         (pc[p] = "idle" /\ Steps(p) /\ r.op \in ProtectedOps /\ r.bearer = "valid"
            /\ users[r.caller] = NoUser)
         => Answers(p) /\ resp'[p].code = 401 /\ UNCHANGED <<db, creds>>
      ]_vars

\* the organizer's row was deleted, and a request to create an event that bore
\* the organizer's token was answered 401
RevokedByDeletionWitness ==
    \E p \in Procs :
        /\ pc[p] = "done" /\ req[p].op = "createEvent" /\ req[p].bearer = "valid"
        /\ resp[p].code = 401
        /\ users[req[p].caller] = NoUser
        /\ tokens[req[p].caller].userId = req[p].caller
        /\ tokens[req[p].caller].role = "organizer"

\* a request with a valid token of an existing user reaches requireRole as p's step
AtRoleCheck(p) ==
    /\ pc[p] = "idle" /\ Steps(p)
    /\ Serving(p).op \in ProtectedOps /\ Serving(p).bearer = "valid"
    /\ Serving(p).role # NoUser

Managed(r) ==
    {reg \in regs : /\ r.role = "admin" \/ events[reg.event_id].created_by = r.caller
                    /\ (r.event_id # 0 => reg.event_id = r.event_id)
                    /\ (r.status # "" => reg.status = r.status)}

\* C17: listManaged returns to an organizer exactly the registrations of the
\* events the caller created that pass the event_id and status filters, and to an
\* admin those of all events, whoever created them.
ListManagedRows ==
    [][\A p \in Procs :
         LET r == Serving(p) IN
         (Answers(p) /\ r.op = "listManaged" /\ requireRole(r.role, requireOrganizer))
         => /\ resp'[p].code = 200
            /\ resp'[p].data = {reg.id : reg \in Managed(r)}
      ]_vars

\* C18: a GET /api/events/my-events request with the valid token of an organizer
\* or an admin is handled by the my-events handler and returns exactly the events
\* whose created_by is the caller.
MyEventsDispatched ==
    [][\A p \in Procs :
         LET r == Serving(p) IN
         (Answers(p) /\ r.path = <<"my-events">> /\ r.bearer = "valid"
            /\ requireRole(r.role, requireOrganizer))
         => /\ r.op = "myEvents"
            /\ resp'[p].code = 200
            /\ resp'[p].data = {e \in EventIds : EventExists(e) /\ events[e].created_by = r.caller}
      ]_vars

\* the username or the email of request r is taken by a row other than the caller's
Taken(r) ==
    UsersWith(r.username, r.email, IF r.op = "updateProfile" THEN r.caller ELSE 0) # {}

\* C19: whatever the interleaving of user-registration and profile-update
\* requests, no two users share a username and no two share an email; a
\* user-registration request whose existence check finds its username or email
\* taken is answered 409, and no step of a request whose username or email is
\* taken creates a user.
UniqueUsers ==
    /\ [](\A u1 \in UserIds : \A u2 \in UserIds :
             (u1 # u2 /\ users[u1] # NoUser /\ users[u2] # NoUser)
             => /\ accounts[u1].username # accounts[u2].username
                /\ accounts[u1].email # accounts[u2].email)
    /\ [][\A p \in Procs :
            LET r == Serving(p) IN
            (Steps(p) /\ r.op = "registerUser" /\ r.body_role # "" /\ Taken(r))
            => /\ users' = users /\ accounts' = accounts
               /\ pc[p] = "ru_select" => pc'[p] = "done" /\ resp'[p].code = 409
         ]_vars

\* a registration with the email of an existing user, under another username,
\* was answered 409
UniqueUsersWitness ==
    \E p \in Procs :
        /\ pc[p] = "done" /\ req[p].op = "registerUser" /\ resp[p].code = 409
        /\ \E u \in UserIds : /\ users[u] # NoUser
                               /\ accounts[u].email = req[p].email
                               /\ accounts[u].username # req[p].username

\* request r would duplicate a unique key: its username or email is taken, or its
\* (event, user) pair already has a registration
Duplicates(r) ==
    \/ r.op = "registerUser" /\ r.body_role # "" /\ Taken(r)
    \/ r.op = "updateProfile" /\ users[r.caller] # NoUser /\ Taken(r)
    \/ r.op = "register" /\ users[r.caller] # NoUser /\ Future(r.event_id)
          /\ RegsByPair(r.event_id, r.caller) # {}

\* C20: every request refused because it would duplicate a username, an email or
\* an (event, user) pair is answered 409, also when the duplicate appears after
\* the request's existence check and only the store's unique constraint catches it.
DuplicateIsConflict ==
    [][\A p \in Procs :
         (Answers(p) /\ pc[p] # "idle" /\ Duplicates(Serving(p)))
         => resp'[p].code = 409
      ]_vars

\* C21: when a create-event request was answered 201 and the event of the id it
\* returned is fetched straight away, the fetch answers 200 with the title,
\* description, date, location and max_attendees of the request body (null for a
\* text the body leaves out, the schema's default for a max_attendees it leaves
\* out), created_by the caller, current_attendees 0 and is_full false.
Created(p) == pc[p] = "done" /\ req[p].op = "createEvent" /\ resp[p].code = 201
Fetched(q, p) ==
    pc[q] = "done" /\ req[q].op = "getEvent" /\ req[q].path = <<ToString(resp[p].event.id)>>
Given(input, output) == IF input = Absent THEN output = Null ELSE output = input

RoundTrip ==
    \A p, q \in Procs :
        (Created(p) /\ Fetched(q, p)) =>
            LET body == req[p].body
                event == resp[q].event IN
            /\ resp[q].code = 200
            /\ event.id = resp[p].event.id
            /\ event.title = body.title
            /\ Given(body.description, event.description)
            /\ Given(body.location, event.location)
            /\ event.date = req[p].date
            /\ IF body.max_attendees = Absent
               THEN event.max_attendees = DefaultMaxAttendees
               ELSE ToString(event.max_attendees) = body.max_attendees
            /\ event.created_by = req[p].caller
            /\ event.current_attendees = 0
            /\ event.is_full = FALSE

RoundTripWitness ==
    \E p, q \in Procs :
        /\ Created(p) /\ Fetched(q, p)
        /\ req[p].body.description # Absent /\ req[p].body.location = Absent
        /\ req[p].body.max_attendees = ToString(MaxCap)
        /\ resp[q].event.max_attendees = MaxCap

\* C22: a cancel request that passed authentication is answered 200 and deletes
\* exactly the registration of its id when that registration exists and belongs
\* to the caller, and is answered 404 and deletes nothing otherwise, whatever
\* the caller's role; no step of it changes another registration, an event or a
\* user.
Own(r) == {reg \in regs : reg.id = r.reg_id /\ reg.user_id = r.caller}

CancelOwnOnly ==
    [][\A p \in Procs :
         LET r == Serving(p) IN
         (r.op = "cancel" /\ Steps(p)) =>
            /\ UNCHANGED <<users, events, nextEventId, nextRegId>>
            /\ ~Answers(p) => regs' = regs
            /\ (Answers(p) /\ resp'[p].code \notin {401, 403}) =>
                  IF Own(r) = {}
                  THEN resp'[p].code = 404 /\ regs' = regs
                  ELSE /\ resp'[p].code = 200
                       /\ Cardinality(Own(r)) = 1
                       /\ regs' = regs \ Own(r)]_vars

CancelOwnOnlyWitness ==
    \E p \in Procs :
        /\ pc[p] = "done" /\ req[p].op = "cancel" /\ resp[p].code = 200
        /\ RegsById(req[p].reg_id) = {}
        /\ \E reg \in regs : reg.user_id # req[p].caller

\* C23: a setStatus request that reaches the handler's capacity check with
\* status approved is answered 400 (event full) and changes no registration
\* when the approved registrations of the event number max_attendees or more,
\* whatever the status of the registration it names; a request with status
\* rejected for a registration the caller may manage is answered 200 and the
\* registration is rejected, however full the event.
Managing(r) ==
    {reg \in RegsById(r.reg_id) :
        r.role = "admin" \/ events[reg.event_id].created_by = r.caller}

ApprovalRefusedWhenFull ==
    [][\A p \in Procs :
         LET r == Serving(p) IN
         (r.op = "setStatus" /\ Answers(p) /\ resp'[p].code \notin {401, 403}) =>
            \A reg \in Managing(r) :
               /\ (r.status = "approved"
                     /\ ApprovedCount(reg.event_id) >= Capacity(reg.event_id)) =>
                     /\ resp'[p] = Resp(400, "event_full_cannot_approve")
                     /\ regs' = regs
               /\ r.status = "rejected" =>
                     /\ resp'[p].code = 200
                     /\ regs' = (regs \ {reg}) \cup {[reg EXCEPT !.status = "rejected"]}]_vars

\* the re-approval of an approved registration was refused on a full event
ApprovalRefusedWhenFullWitness ==
    \E p \in Procs :
        /\ pc[p] = "done" /\ req[p].op = "setStatus" /\ req[p].status = "approved"
        /\ resp[p].msg = "event_full_cannot_approve"
        /\ \E reg \in RegsById(req[p].reg_id) :
              reg.status = "approved" /\ ApprovedCount(reg.event_id) = Capacity(reg.event_id)

\* C24: every attendee_update the server emits answers a registration_update
\* of a socket whose token bore the role organizer or admin, and carries as
\* attendeeCount the number of approved registrations the store holds for the
\* event; a registration_update of any other socket emits an error to that
\* socket alone.
Privileged == {"organizer", "admin"}

AttendeeUpdateFromStore ==
    [][emitted' # emitted =>
         /\ emitted'.type = "attendee_update" =>
               /\ tokens[emitted'.updatedBy].role \in Privileged
               /\ emitted'.attendeeCount = ApprovedCount(emitted'.eventId)
         /\ \A s \in Accepted :
               (RegistrationUpdate(s) /\ tokens[sockets[s].userId].role \notin Privileged) =>
                  emitted'.type = "error" /\ emitted'.to = {s}]_vars

\* the update came from a socket whose user the store no longer holds as
\* organizer, and carried the one approved registration of the store
AttendeeUpdateFromStoreWitness ==
    /\ emitted.type = "attendee_update" /\ emitted.to # {}
    /\ emitted.attendeeCount = 1 /\ ApprovedCount(emitted.eventId) = 1
    /\ users[emitted.updatedBy] = "student"

\* C25: a socket is in a room only once the server has accepted its handshake
\* with a token; it enters the room of an event only by join_event and is out
\* of it after leave_event; attendee_update goes only to sockets in the room of
\* its event, registration_notification only to sockets whose token bore the
\* role organizer or admin when they connected.
RoomScoped ==
    /\ [](\A s \in SocketIds :
            /\ sockets[s].userId = 0 => sockets[s].rooms = {}
            /\ s \in Accepted => sockets[s].userRole = tokens[sockets[s].userId].role)
    /\ [][\A s \in SocketIds, e \in EventIds :
            /\ (Room("event", e) \in sockets'[s].rooms \ sockets[s].rooms) => JoinEvent(s, e)
            /\ LeaveEvent(s, e) => Room("event", e) \notin sockets'[s].rooms]_vars
    /\ [][emitted' # emitted =>
            /\ emitted'.type = "attendee_update" =>
                  \A s \in emitted'.to : Room("event", emitted'.eventId) \in sockets[s].rooms
            /\ emitted'.type = "registration_notification" =>
                  \A s \in emitted'.to : sockets[s].userRole \in Privileged
            /\ emitted'.type # "connect_error" => emitted'.to \subseteq Accepted]_vars

\* an attendee_update reached the socket in the room of the event and not the
\* other socket the server holds
RoomScopedWitness ==
    \E s, t \in Accepted :
        /\ emitted.type = "attendee_update" /\ emitted.to = {s}
        /\ t # s /\ Room("event", emitted.eventId) \notin sockets[t].rooms

\* C26: a request that bears a token issued JWT_EXPIRES_IN or more before is
\* answered 401, token expired, and changes nothing in the store.
JWT_EXPIRES_IN == 1     \* the documented lifetime of a token, in instants of the clock

TokensExpire ==
    [][\A p \in Procs :
         LET r == Serving(p) IN
         (pc[p] = "idle" /\ Steps(p) /\ r.bearer = "valid"
            /\ now >= tokens[r.caller].iat + JWT_EXPIRES_IN) =>
               /\ resp'[p] = Resp(401, "token_expired")
               /\ UNCHANGED db]_vars

\* C27: in every state the routes can reach, event update among them, the
\* approved registrations of an event number at most its max_attendees, and
\* the is_full that GET /:id derives is true exactly when they number
\* max_attendees.
CapacityInEveryState ==
    \A e \in EventIds :
        EventExists(e) =>
            /\ ApprovedCount(e) <= Capacity(e)
            /\ getEvent(e).event.is_full <=> (ApprovedCount(e) = Capacity(e))

\* C28: every user row has the role student or organizer; a registration that
\* is answered 201 creates one row, whose role is the one the body gives and
\* student when it gives none; no request changes the role of a row there is.
NoEscalation ==
    /\ [](\A u \in UserIds : users[u] \in {NoUser, "student", "organizer"})
    /\ [][\A u \in UserIds : users[u] # NoUser => users'[u] = users[u]]_vars
    /\ [][\A p \in Procs :
            LET r == Serving(p) IN
            (r.op = "registerUser" /\ Answers(p) /\ resp'[p].code = 201) =>
               \E u \in UserIds :
                  /\ users[u] = NoUser
                  /\ users' = [users EXCEPT ![u] = IF r.given_role = "" THEN "student"
                                                   ELSE r.given_role]]_vars

\* a student has changed the password, beside a user who registered as organizer
NoEscalationWitness ==
    \E p \in Procs, u \in UserIds :
        /\ pc[p] = "done" /\ req[p].op = "changePassword" /\ resp[p].code = 200
        /\ req[p].caller = u /\ users[u] = "student"
        /\ req[p].password # req[p].newPassword
        /\ accounts[u].password_hash = hash(req[p].newPassword)
        /\ \E v \in UserIds \ {u} : users[v] = "organizer"

\* C29: a setStatus request is answered 200 only when the registration it
\* names is in the store with the requested status once the request is
\* answered.
SuccessMeansUpdated ==
    [][\A p \in Procs :
         LET r == Serving(p) IN
         (r.op = "setStatus" /\ Answers(p) /\ resp'[p].code = 200) =>
            \E reg \in regs' : reg.id = r.reg_id /\ reg.status = r.status]_vars

\* C30: whenever the browser holds a socket the server has accepted, the
\* handlers of EventProvider are attached to it, and an attendee_update that
\* reaches the socket for the event on display sets the displayed
\* current_attendees to the count it carries.
PushesDisplayed ==
    /\ [](client.socket \in Accepted => client.socket \in client.listening)
    /\ [][(/\ emitted' # emitted
            /\ emitted'.type = "attendee_update"
            /\ client.socket \in emitted'.to
            /\ client.viewing = emitted'.eventId) =>
              client'.current_attendees = emitted'.attendeeCount]_vars

====
